---- MODULE Spec2Model ----
(***************************************************************************)
(* django-querycache: fingerprinting of a Django query, the expiry-gated   *)
(* staleness check (update_required) of the three engines of               *)
(* fingerprinting.py and the two engines CachedQuerySet builds by default  *)
(* (cacheman.py), and CachedQuerySet's fetch (get_with_update).            *)
(*                                                                         *)
(* One call of update_required / get_with_update is one step: the library  *)
(* is synchronous, and the sequential claims take the data to change only  *)
(* between calls.  The wall clock is an integer; a row's auto_now column   *)
(* is stamped with the clock at the time of the write.                     *)
(***************************************************************************)
EXTENDS Integers, Sequences, FiniteSets, TLC

VARIABLES
    db,         \* the table: row id -> [tok, ts], for the rows that exist
    now,        \* wall clock (utcnow / datetime.now)
    caches,     \* django.core.cache.caches: alias -> key -> stored value
    cfg,        \* what the constructors fixed: engine class, expiry, query, backends
    hist,       \* engines alone: "none", the answer of the most recent update_required
                \* ("true", "false") while only time has passed since, "dirty" once
                \* the data changed after it, "deleted" once the fingerprint was deleted
    changedAt,  \* CachedQuerySet: clock value of the most recent data change (0: none)
    last,       \* the most recent operation: what it was given, what it returned
    pc          \* store operations taken one at a time: the position of the caller
                \* inside update_required or a deleter, and what it holds

vars == <<db, now, caches, cfg, hist, changedAt, last, pc>>

-----------------------------------------------------------------------------
(* Bounds *)

MaxRows == 2
MaxTime == 3
MaxToken == 1

RowIds == 1..MaxRows
Tokens == 0..MaxToken
Times == 1..MaxTime

-----------------------------------------------------------------------------
(* Values *)

\* cache.get() of a missing key: None
NoValue == <<>>

\* engine classes
FP == "Fingerprinting"
TSFP == "TimeStampedFingerprint"
MTSFP == "ModelTimeStampedFingerprint"
CM_FP == "cacheman.Fingerprinting"
CM_TSFP == "cacheman.TimeStampedFingerprint"

TimestampEngines == {TSFP, MTSFP, CM_TSFP}

Aliases == {"default", "other"}

\* rows the query matches / rows of the whole model
QueryRows(D) == {i \in DOMAIN D : i \in cfg.query}
TableRows(D) == DOMAIN D

Max(S) == CHOOSE x \in S : \A y \in S : y <= x

-----------------------------------------------------------------------------
(* utils.query_to_key and the keys the constructors derive *)

\* f"{base_table}_{query_hex}{params_hex}{suffix}": "q" stands for the part
\* before the suffix, the same for every key of one query
query_to_key(suffix) == "q" \o suffix

\* the fingerprint key of every engine without the "_ts" suffix
cache_key_without_ts == query_to_key("_hash")

cache_key ==
    LET base == query_to_key("_hash")
    IN  IF cfg.engine \in TimestampEngines THEN base \o "_ts" ELSE base

time_cache_key ==
    LET base == query_to_key("_hash") \o "_set_time"
    IN  IF cfg.engine \in TimestampEngines THEN base \o "_ts" ELSE base

table_cache_key == cache_key \o "_table"
table_time_cache_key == time_cache_key \o "_table"

\* CachedQuerySet.cache_key
value_key == query_to_key("")

Keys == {query_to_key(""),
         query_to_key("_hash"), query_to_key("_hash") \o "_set_time",
         query_to_key("_hash") \o "_ts", query_to_key("_hash") \o "_set_time" \o "_ts",
         query_to_key("_hash") \o "_ts" \o "_table",
         query_to_key("_hash") \o "_set_time" \o "_ts" \o "_table"}

-----------------------------------------------------------------------------
(* The key-value store: a real backend keeps what is set, DummyCache does not *)

IsDummy(alias) == cfg.backend[alias] = "dummy"

cache_get(C, alias, k) == IF IsDummy(alias) THEN NoValue ELSE C[alias][k]

cache_set(C, alias, k, v) ==
    IF IsDummy(alias) THEN C ELSE [C EXCEPT ![alias][k] = v]

cache_delete(C, alias, k) ==
    IF IsDummy(alias) THEN C ELSE [C EXCEPT ![alias][k] = NoValue]

\* key in cache
cache_contains(C, alias, k) == ~IsDummy(alias) /\ C[alias][k] # NoValue

-----------------------------------------------------------------------------
(* Fingerprints *)

RECURSIVE BitXor(_, _)
\* int(a, 16) ^ int(b, 16)
BitXor(a, b) ==
    IF a = 0 THEN b
    ELSE IF b = 0 THEN a
    ELSE (((a % 2) + (b % 2)) % 2) + (2 * BitXor(a \div 2, b \div 2))

RECURSIVE XorRows(_, _)
\* reduce(hexxor, row_fingerprints(), "0" * width)
XorRows(D, S) ==
    IF S = {} THEN 0
    ELSE LET i == CHOOSE j \in S : TRUE
         IN  BitXor(D[i].tok, XorRows(D, S \ {i}))

\* Fingerprinting.query_fingerprint: XOR of the per-row tokens of the query
Fingerprinting_query_fingerprint(D) == <<"xor", XorRows(D, QueryRows(D))>>

\* aggregate(Count("pk"), newest_timestamp=Max(col)) over rows S, hashed:
\* md5 of "{count}{max}" taken as injective, max of no rows is None (0 here)
CountMaxFingerprint(D, S) ==
    <<"md5", Cardinality(S), IF S = {} THEN 0 ELSE Max({D[i].ts : i \in S})>>

\* TimeStampedFingerprint.query_fingerprint (fingerprinting.py)
TimeStamped_query_fingerprint(D) == CountMaxFingerprint(D, QueryRows(D))

\* cacheman's TimeStampedFingerprint.query_fingerprint: isoformat of the
\* newest timestamp; for no rows the datetime utcnow(), a value no earlier
\* call returned
Cacheman_TimeStamped_query_fingerprint(D) ==
    LET S == QueryRows(D)
    IN  IF S = {} THEN <<"utcnow", "this call">>
        ELSE <<"iso", Max({D[i].ts : i \in S})>>

query_fingerprint(D) ==
    CASE cfg.engine \in {FP, CM_FP} -> Fingerprinting_query_fingerprint(D)
      [] cfg.engine \in {TSFP, MTSFP} -> TimeStamped_query_fingerprint(D)
      [] cfg.engine = CM_TSFP -> Cacheman_TimeStamped_query_fingerprint(D)

\* a datetime read back from the store is the one an earlier call made
Stored(fp) == IF fp[1] = "utcnow" THEN <<"utcnow", "earlier call">> ELSE fp

\* a table-wide fingerprint of the newest timestamp alone, without the row count
_get_table_fingerprint_newest_only(D) ==
    <<"md5", 0, IF TableRows(D) = {} THEN 0 ELSE Max({D[i].ts : i \in TableRows(D)})>>

\* ModelTimeStampedFingerprint._get_table_fingerprint: the whole model
_get_table_fingerprint(D) == CountMaxFingerprint(D, TableRows(D))

-----------------------------------------------------------------------------
(* Fingerprinting: the cached fingerprint and its "last calculated" time *)

\* self.cache of the engine: get_query_cache(kwargs.get("cache_alias", "default"))
fp_cache == cfg.fp_alias

\* property _cached_fingerprint
_cached_fingerprint(C) == cache_get(C, fp_cache, cache_key)

\* setter: the time key first, then the fingerprint key
set_cached_fingerprint(C, value, t) ==
    cache_set(cache_set(C, fp_cache, time_cache_key, <<t>>),
              fp_cache, cache_key, Stored(value))

\* deleter
del_cached_fingerprint(C) ==
    cache_delete(cache_delete(C, fp_cache, time_cache_key), fp_cache, cache_key)

\* _expired with the window's end counted as fresh (age <= expiry)
_expired_inclusive(C, t) ==
    IF _cached_fingerprint(C) = NoValue THEN TRUE
    ELSE LET cached_fingerprint_timestamp == cache_get(C, fp_cache, time_cache_key)
         IN  IF cached_fingerprint_timestamp = NoValue THEN TRUE
             ELSE (t - cached_fingerprint_timestamp[1]) > cfg.fingerprint_expiry

\* property _expired, read at clock value t
_expired(C, t) ==
    IF _cached_fingerprint(C) = NoValue THEN TRUE
    ELSE LET cached_fingerprint_timestamp == cache_get(C, fp_cache, time_cache_key)
         IN  IF cached_fingerprint_timestamp = NoValue THEN TRUE
             ELSE LET age == t - cached_fingerprint_timestamp[1]
                  IN  IF age < cfg.fingerprint_expiry THEN FALSE ELSE TRUE

\* update_required answering False when nothing was stored before
update_required_absent_is_unchanged(C, D, t, force_check) ==
    IF ~_expired(C, t) /\ ~force_check
    THEN [ret |-> FALSE, caches |-> C, path |-> "fast", fq |-> 0, tq |-> 0]
    ELSE LET current_fp == _cached_fingerprint(C)
             new_fp == query_fingerprint(D)
         IN  [ret |-> (current_fp # NoValue /\ current_fp # new_fp),
              caches |-> set_cached_fingerprint(C, new_fp, t),
              path |-> "full", fq |-> 1, tq |-> 0]

\* update_required whose fast path rewrites the time key (a sliding window)
update_required_fast_path_touches(C, D, t, force_check) ==
    IF ~_expired(C, t) /\ ~force_check
    THEN [ret |-> FALSE, caches |-> cache_set(C, fp_cache, time_cache_key, <<t>>),
          path |-> "fast", fq |-> 0, tq |-> 0]
    ELSE LET current_fp == _cached_fingerprint(C)
             new_fp == query_fingerprint(D)
         IN  [ret |-> (current_fp # new_fp),
              caches |-> set_cached_fingerprint(C, new_fp, t),
              path |-> "full", fq |-> 1, tq |-> 0]

\* update_required that stores nothing when the fingerprint has not changed
update_required_no_rewrite(C, D, t, force_check) ==
    IF ~_expired(C, t) /\ ~force_check
    THEN [ret |-> FALSE, caches |-> C, path |-> "fast", fq |-> 0, tq |-> 0]
    ELSE LET current_fp == _cached_fingerprint(C)
             new_fp == query_fingerprint(D)
         IN  IF current_fp = new_fp
             THEN [ret |-> FALSE, caches |-> C, path |-> "full", fq |-> 1, tq |-> 0]
             ELSE [ret |-> TRUE, caches |-> set_cached_fingerprint(C, new_fp, t),
                   path |-> "full", fq |-> 1, tq |-> 0]

\* Fingerprinting.update_required: the answer, the store it leaves, and the
\* fingerprint queries (fq) and table-wide queries (tq) it executed
Fingerprinting_update_required(C, D, t, force_check) ==
    IF ~_expired(C, t) /\ ~force_check
    THEN [ret |-> FALSE, caches |-> C, path |-> "fast", fq |-> 0, tq |-> 0]
    ELSE LET current_fp == _cached_fingerprint(C)
             new_fp == query_fingerprint(D)
         IN  [ret |-> (current_fp # new_fp),
              caches |-> set_cached_fingerprint(C, new_fp, t),
              path |-> "full", fq |-> 1, tq |-> 0]

-----------------------------------------------------------------------------
(* ModelTimeStampedFingerprint: the table-wide fingerprint in front *)

_cached_table_fingerprint(C) == cache_get(C, fp_cache, table_cache_key)

set_cached_table_fingerprint(C, value, t) ==
    cache_set(cache_set(C, fp_cache, table_time_cache_key, <<t>>),
              fp_cache, table_cache_key, value)

\* the tiered update_required without its shortcut
ModelTimeStamped_no_shortcut(C, D, t, force_check) ==
    LET table_fp == _get_table_fingerprint(D)
        required == Fingerprinting_update_required(
                        set_cached_table_fingerprint(C, table_fp, t), D, t, force_check)
    IN  [required EXCEPT !.tq = 1]

\* ModelTimeStampedFingerprint.update_required
ModelTimeStamped_update_required(C, D, t, force_check) ==
    LET table_fp == _get_table_fingerprint(D)
    IN  IF table_fp = _cached_table_fingerprint(C)
        THEN [ret |-> FALSE,
              caches |-> set_cached_table_fingerprint(C, table_fp, t),
              path |-> "table", fq |-> 0, tq |-> 1]
        ELSE LET required == Fingerprinting_update_required(
                                 set_cached_table_fingerprint(C, table_fp, t),
                                 D, t, force_check)
             IN  [required EXCEPT !.tq = 1]

\* fp.update_required of whichever engine class was constructed
update_required(C, D, t, force_check) ==
    IF cfg.engine = MTSFP
    THEN ModelTimeStamped_update_required(C, D, t, force_check)
    ELSE Fingerprinting_update_required(C, D, t, force_check)

-----------------------------------------------------------------------------
(* CachedQuerySet *)

\* self.cache: get_query_cache(kwargs.get("cache_alias", "default"))
cqs_cache == cfg.cache_alias

\* isinstance(caches["default"], DummyCache)
_cache_is_dummy == IsDummy("default")

\* get_serialized_query: list(self.query.values()), one mapping per matched row
get_serialized_query(D) == {[pk |-> i, tok |-> D[i].tok, ts |-> D[i].ts] : i \in QueryRows(D)}

\* update_cache: the store it leaves and the serialization queries (sq) it ran
update_cache(C, D) ==
    IF _cache_is_dummy THEN [caches |-> C, sq |-> 0]
    ELSE [caches |-> cache_set(C, cqs_cache, value_key, <<get_serialized_query(D)>>),
          sq |-> 1]

\* update_if_required that asks the engine and then does not refresh the value
update_if_required_no_refresh(C, D, t) ==
    IF ~cache_contains(C, cqs_cache, value_key)
    THEN LET u == update_cache(C, D)
             r == update_required(u.caches, D, t, FALSE)
         IN  [caches |-> r.caches, ret |-> r.ret, path |-> r.path, fq |-> r.fq,
              tq |-> r.tq, sq |-> u.sq, absent |-> TRUE]
    ELSE LET r == update_required(C, D, t, FALSE)
         IN  [caches |-> r.caches, ret |-> r.ret, path |-> r.path, fq |-> r.fq,
              tq |-> r.tq, sq |-> 0, absent |-> FALSE]

\* update_if_required: the store it leaves, the engine's answer (ret), the
\* queries run, and whether the value key was absent
update_if_required(C, D, t) ==
    IF ~cache_contains(C, cqs_cache, value_key)
    THEN LET u == update_cache(C, D)
             r == update_required(u.caches, D, t, FALSE)
         IN  [caches |-> r.caches, ret |-> r.ret, path |-> r.path, fq |-> r.fq,
              tq |-> r.tq, sq |-> u.sq, absent |-> TRUE]
    ELSE LET r == update_required(C, D, t, FALSE)
         IN  IF r.ret
             THEN LET u == update_cache(r.caches, D)
                  IN  [caches |-> u.caches, ret |-> r.ret, path |-> r.path, fq |-> r.fq,
                       tq |-> r.tq, sq |-> u.sq, absent |-> FALSE]
             ELSE [caches |-> r.caches, ret |-> r.ret, path |-> r.path, fq |-> r.fq,
                   tq |-> r.tq, sq |-> 0, absent |-> FALSE]

\* property cached_query, read after update_if_required
cached_query(C, D) ==
    IF _cache_is_dummy THEN [value |-> <<get_serialized_query(D)>>, sq |-> 1]
    ELSE [value |-> cache_get(C, cqs_cache, value_key), sq |-> 0]

\* get_with_update
get_with_update(C, D, t) ==
    LET u == update_if_required(C, D, t)
        q == cached_query(u.caches, D)
    IN  [u EXCEPT !.sq = u.sq + q.sq] @@ [result |-> q.value]

-----------------------------------------------------------------------------
(* The state machine *)

\* last.pre: the store and hist as the call found them
Pre == [caches |-> caches, hist |-> hist]

\* last.pre of an operation that is not a call
NoPre == [caches |-> <<>>, hist |-> "none"]

\* an operation that is not a call of the library
Other(op) ==
    [op |-> op, force |-> FALSE, ret |-> FALSE, path |-> "none", fq |-> 0, tq |-> 0,
     sq |-> 0, absent |-> FALSE, result |-> NoValue, pre |-> NoPre]

stamp == IF cfg.auto_now THEN now ELSE 0

\* no operation in progress
Idle == [at |-> "idle", force |-> FALSE, fp |-> NoValue, ret |-> FALSE]

EmptyCaches == [a \in Aliases |-> [k \in Keys |-> NoValue]]

RealBackends == [a \in Aliases |-> "locmem"]

ExpiryChoices == {-1, 2}

QueryChoices == {RowIds, RowIds \ {MaxRows}}

\* the engines of fingerprinting.py, each on a store that keeps what is set
EngineConfigs ==
    {[engine |-> e, auto_now |-> (e # FP), fingerprint_expiry |-> x, query |-> q,
      backend |-> RealBackends, fp_alias |-> "default", cache_alias |-> "default",
      cached_queryset |-> FALSE] :
        e \in {FP, TSFP, MTSFP}, x \in ExpiryChoices, q \in QueryChoices}

InitCommon ==
    /\ db = <<>>
    /\ now = 1
    /\ caches = EmptyCaches
    /\ hist = "none"
    /\ changedAt = 0
    /\ last = Other("init")
    /\ pc = Idle

Init == InitCommon /\ cfg \in EngineConfigs

\* time passes
Tick ==
    /\ now < MaxTime
    /\ now' = now + 1
    /\ last' = Other("tick")
    /\ UNCHANGED <<db, caches, cfg, hist, changedAt, pc>>

\* a write to the table; the per-row token of a table with an auto_now column
\* is not followed (every write shows in the column)
TokenChoices == IF cfg.auto_now THEN {0} ELSE Tokens

Changed ==
    /\ changedAt' = IF cfg.cached_queryset THEN now ELSE changedAt
    /\ hist' = IF cfg.cached_queryset THEN hist ELSE "dirty"
    /\ last' = Other("write")
    /\ UNCHANGED <<now, caches, cfg, pc>>

\* Model(...).save() of a new row
Insert(i, tok) ==
    /\ i \notin DOMAIN db
    /\ db' = (i :> [tok |-> tok, ts |-> stamp]) @@ db
    /\ Changed

\* row.save() of an existing row: auto_now stamps it
Save(i, tok) ==
    /\ i \in DOMAIN db
    /\ db' = [db EXCEPT ![i] = [tok |-> tok, ts |-> stamp]]
    /\ Changed

\* row.delete()
Delete(i) ==
    /\ i \in DOMAIN db
    /\ db' = [j \in DOMAIN db \ {i} |-> db[j]]
    /\ Changed

\* fp.update_required(force_check)
CallUpdateRequired(force_check) ==
    LET r == update_required(caches, db, now, force_check)
    IN  /\ caches' = r.caches
        /\ hist' = IF r.ret THEN "true" ELSE "false"
        /\ last' = [op |-> "update_required", force |-> force_check, ret |-> r.ret,
                    path |-> r.path, fq |-> r.fq, tq |-> r.tq, sq |-> 0,
                    absent |-> FALSE, result |-> NoValue, pre |-> Pre]
        /\ UNCHANGED <<db, now, cfg, changedAt, pc>>

\* del fp._cached_fingerprint
DeleteCachedFingerprint ==
    /\ caches' = del_cached_fingerprint(caches)
    /\ hist' = "deleted"
    /\ last' = [Other("del_cached_fingerprint") EXCEPT !.pre = Pre]
    /\ UNCHANGED <<db, now, cfg, changedAt, pc>>

Next ==
    \/ Tick
    \/ \E i \in RowIds, tok \in TokenChoices : Insert(i, tok)
    \/ \E i \in RowIds, tok \in TokenChoices : Save(i, tok)
    \/ \E i \in RowIds : Delete(i)
    \/ \E force_check \in BOOLEAN : CallUpdateRequired(force_check)
    \/ DeleteCachedFingerprint

Spec == Init /\ [][Next]_vars

-----------------------------------------------------------------------------
(* CachedQuerySet with the engine it builds by default *)

\* settings.CACHES and the cache_alias given to CachedQuerySet: every backend
\* for the default cache and for the one the alias selects
BackendChoices ==
    {[backend |-> [default |-> d, other |-> d], cache_alias |-> "default"] :
        d \in {"locmem", "dummy"}}
    \cup {[backend |-> [default |-> d, other |-> o], cache_alias |-> "other"] :
        d \in {"locmem", "dummy"}, o \in {"locmem", "dummy"}}

\* CachedQuerySet.__init__: TimeStampedFingerprint, or on ValueError (no
\* auto_now column) Fingerprinting, both cacheman's and both on the default cache
CachedQuerySetConfigs ==
    {[engine |-> (IF a THEN CM_TSFP ELSE CM_FP), auto_now |-> a,
      fingerprint_expiry |-> x, query |-> q,
      backend |-> b.backend, fp_alias |-> "default", cache_alias |-> b.cache_alias,
      cached_queryset |-> TRUE] :
        a \in BOOLEAN, x \in ExpiryChoices, q \in QueryChoices, b \in BackendChoices}

InitCachedQuerySet == InitCommon /\ cfg \in CachedQuerySetConfigs

\* CachedQuerySet.get_with_update()
GetWithUpdate ==
    LET r == get_with_update(caches, db, now)
    IN  /\ caches' = r.caches
        /\ hist' = hist
        /\ last' = [op |-> "get_with_update", force |-> FALSE, ret |-> r.ret,
                    path |-> r.path, fq |-> r.fq, tq |-> r.tq, sq |-> r.sq,
                    absent |-> r.absent, result |-> r.result, pre |-> Pre]
        /\ UNCHANGED <<db, now, cfg, changedAt, pc>>

NextCachedQuerySet ==
    \/ Tick
    \/ \E i \in RowIds, tok \in TokenChoices : Insert(i, tok)
    \/ \E i \in RowIds, tok \in TokenChoices : Save(i, tok)
    \/ \E i \in RowIds : Delete(i)
    \/ GetWithUpdate

SpecCachedQuerySet == InitCachedQuerySet /\ [][NextCachedQuerySet]_vars

-----------------------------------------------------------------------------
(* What the claims read: the store as the last call found it *)

EngineCall == last.op = "update_required"

PreFp == last.pre.caches[fp_cache][cache_key]
PreTime == last.pre.caches[fp_cache][time_cache_key]
PreTableFp == last.pre.caches[fp_cache][table_cache_key]
PreTableTime == last.pre.caches[fp_cache][table_time_cache_key]

NowFp == caches[fp_cache][cache_key]
NowTime == caches[fp_cache][time_cache_key]

HadEntries == PreFp # NoValue /\ PreTime # NoValue

\* the age of the stored fingerprint when the call was made
PreAge == now - PreTime[1]

\* the call ran Fingerprinting.update_required on the store it found: always
\* for the content-hash and timestamp engines, after a changed table-wide
\* fingerprint for the tiered one
ReachedQueryCheck ==
    cfg.engine = MTSFP => _get_table_fingerprint(db) # PreTableFp

OtherKeysUnchanged(written) ==
    \A a \in Aliases, k \in Keys :
        (a # fp_cache \/ k \notin written) => caches[a][k] = last.pre.caches[a][k]

-----------------------------------------------------------------------------
(* C1..C4, C10: the staleness check of fingerprinting.py *)

\* C1: content-hash and timestamp engines. A call made when the stored
\* fingerprint is at least one expiry window old and differs from the
\* fingerprint of the data answers True, whatever in-window calls came before
\* it; the call that follows a True answer with no data change answers False.
C1_ChangeReportedOnceAfterExpiry ==
    (EngineCall /\ cfg.engine \in {FP, TSFP}) =>
        /\ (HadEntries /\ PreAge >= cfg.fingerprint_expiry
                /\ query_fingerprint(db) # PreFp) => last.ret
        /\ (last.pre.hist = "true") => ~last.ret

\* the change was made, a call inside the window answered False, and the
\* first call after the window answers True
C1_Witness ==
    /\ EngineCall /\ cfg.engine \in {FP, TSFP} /\ ~last.force
    /\ cfg.fingerprint_expiry > 0
    /\ last.pre.hist = "false"
    /\ HadEntries /\ PreAge >= cfg.fingerprint_expiry
    /\ query_fingerprint(db) # PreFp
    /\ last.ret

C3_FastPathFrame ==
    (EngineCall /\ ReachedQueryCheck /\ HadEntries
        /\ PreAge < cfg.fingerprint_expiry /\ ~last.force) =>
        /\ ~last.ret
        /\ last.fq = 0
        /\ NowFp = PreFp /\ NowTime = PreTime
        /\ cfg.engine # MTSFP => (last.tq = 0 /\ caches = last.pre.caches)

\* a fast-path call made after the data changed, later than the stored time
C3_Witness ==
    /\ EngineCall /\ cfg.engine \in {FP, TSFP} /\ ~last.force
    /\ HadEntries /\ PreAge < cfg.fingerprint_expiry /\ PreAge > 0
    /\ query_fingerprint(db) # PreFp
    /\ last.path = "fast"

\* C4: off the fast path (entry or timestamp absent, age >= window, or
\* force_check) the call answers True exactly when the fresh fingerprint
\* differs from the stored one, and leaves the fresh fingerprint and the
\* time of the call stored in both outcomes.
C4_FullCheck ==
    (EngineCall /\ ReachedQueryCheck
        /\ ~(HadEntries /\ PreAge < cfg.fingerprint_expiry /\ ~last.force)) =>
        /\ last.ret = (query_fingerprint(db) # PreFp)
        /\ last.fq = 1
        /\ NowFp = query_fingerprint(db)
        /\ NowTime = <<now>>

\* nothing changed, the answer is False, and the timestamp was rewritten
C4_Witness ==
    /\ EngineCall /\ cfg.engine \in {FP, TSFP} /\ ~last.force
    /\ HadEntries /\ PreAge >= cfg.fingerprint_expiry /\ PreAge > 0
    /\ PreFp = query_fingerprint(db)
    /\ ~last.ret /\ NowTime = <<now>> /\ NowTime # PreTime

\* C10: tiered engine. When the fresh table-wide fingerprint equals the stored
\* one the call answers False, runs no query-scoped fingerprint query, leaves
\* the query-scoped fingerprint and timestamp as they were and rewrites only
\* the table-wide fingerprint and its timestamp.
C10_TableShortCircuit ==
    (EngineCall /\ cfg.engine = MTSFP /\ _get_table_fingerprint(db) = PreTableFp) =>
        /\ ~last.ret
        /\ last.fq = 0 /\ last.tq = 1
        /\ NowFp = PreFp /\ NowTime = PreTime
        /\ caches[fp_cache][table_cache_key] = _get_table_fingerprint(db)
        /\ caches[fp_cache][table_time_cache_key] = <<now>>
        /\ OtherKeysUnchanged({table_cache_key, table_time_cache_key})

\* the shortcut taken after the window of the query-scoped fingerprint, with
\* the table-wide timestamp moved to the time of the call
C10_Witness ==
    /\ EngineCall /\ cfg.engine = MTSFP /\ _get_table_fingerprint(db) = PreTableFp
    /\ HadEntries /\ PreAge >= cfg.fingerprint_expiry /\ PreAge > 0
    /\ PreTableTime # <<now>>
    /\ caches[fp_cache][table_time_cache_key] = <<now>>
    /\ ~last.ret

-----------------------------------------------------------------------------
(* C5..C9: CachedQuerySet.get_with_update *)

Fetch == last.op = "get_with_update"

\* what the store selected by the cache alias held under the value key
PreValue == cache_get(last.pre.caches, cqs_cache, value_key)
NowValue == cache_get(caches, cqs_cache, value_key)

\* what the engine's store held
PreEngineFp == cache_get(last.pre.caches, fp_cache, cache_key)

Current == <<get_serialized_query(db)>>

\* the fetch started at least one expiry window after the last data change
WindowElapsedSinceChange ==
    changedAt = 0 \/ now - changedAt >= cfg.fingerprint_expiry

\* no two distinct rows, of the data or of the stored serialization, share a token
TokensCollisionFree ==
    LET rows == get_serialized_query(db)
                    \cup (IF PreValue = NoValue THEN {} ELSE PreValue[1])
    IN  \A r1, r2 \in rows : r1.tok = r2.tok => r1.pk = r2.pk

\* C5 as stated: content-hash engine, real store, collision-free row tokens: a
\* fetch starting at least one expiry window after the most recent data change
\* returns the serialization of the current data.
C5_Original ==
    (Fetch /\ cfg.engine = CM_FP /\ ~IsDummy(cqs_cache)
        /\ WindowElapsedSinceChange /\ TokensCollisionFree) =>
        last.result = Current

\* C5 as amended: the same, for data whose XOR fingerprint differs from the
\* stored fingerprint whenever the stored serialization is out of date.
C5_FreshAfterExpiry ==
    (Fetch /\ cfg.engine = CM_FP /\ ~IsDummy(cqs_cache)
        /\ WindowElapsedSinceChange /\ TokensCollisionFree
        /\ (PreValue # Current => query_fingerprint(db) # PreEngineFp)) =>
        last.result = Current

\* a stored serialization that was out of date, replaced one window after the change
C5_Witness ==
    /\ Fetch /\ cfg.engine = CM_FP /\ ~IsDummy(cqs_cache)
    /\ cfg.fingerprint_expiry > 0 /\ changedAt > 0
    /\ now - changedAt >= cfg.fingerprint_expiry
    /\ TokensCollisionFree
    /\ PreValue # NoValue /\ PreValue # Current
    /\ last.ret /\ last.result = Current

\* C6: on a real store the fetch runs the serialization query and overwrites
\* the stored value exactly when the value key was absent or update_required
\* answered True; otherwise the stored value is returned as it was and no
\* serialization query runs.
C6_RefreshIffAbsentOrStale ==
    (Fetch /\ ~IsDummy(cqs_cache)) =>
        IF PreValue = NoValue \/ last.ret
        THEN last.sq = 1 /\ NowValue = Current
        ELSE last.sq = 0 /\ NowValue = PreValue /\ last.result = PreValue

\* C7: on a real store a fetch that finds no value computes and stores the
\* serialization; after every fetch the value, the fingerprint and the
\* fingerprint timestamp are all stored and the fetch returns the stored value.
C7_EntriesPresentAfterFetch ==
    (Fetch /\ ~IsDummy(cqs_cache)) =>
        /\ (PreValue = NoValue) => (last.sq = 1 /\ NowValue = Current)
        /\ NowValue # NoValue
        /\ cache_get(caches, fp_cache, cache_key) # NoValue
        /\ cache_get(caches, fp_cache, time_cache_key) # NoValue
        /\ last.result = NowValue

\* C8: when the store selected by the cache alias is a no-op store, every
\* fetch returns a serialization computed from the query during that call.
C8_DummyStoreAlwaysRecomputes ==
    (Fetch /\ IsDummy(cqs_cache)) =>
        /\ last.result # NoValue
        /\ last.result = Current
        /\ last.sq >= 1

\* every row of the data and of the stored serialization has a timestamp of its own
StampsDistinct ==
    LET rows == get_serialized_query(db)
                    \cup (IF PreValue = NoValue THEN {} ELSE PreValue[1])
    IN  \A r1, r2 \in rows : r1.ts = r2.ts => r1.pk = r2.pk

\* C9: default engine over a model with an auto_now column, real stores: a
\* fetch made once the expiry window has elapsed since a matched row was
\* inserted, saved or deleted returns the serialization of the current data.
C9_TimestampEngineReflectsChange ==
    (Fetch /\ cfg.engine = CM_TSFP /\ cfg.backend = RealBackends
        /\ changedAt > 0 /\ now - changedAt >= cfg.fingerprint_expiry
        /\ StampsDistinct) =>
        last.result = Current

-----------------------------------------------------------------------------
(* C11..C13: the tiered fall-through, entry pairing, deletion *)

\* C11: tiered engine. When the fresh table-wide fingerprint differs from the
\* stored one the call computes the query-scoped fingerprint, answers True
\* exactly when it differs from the stored query-scoped fingerprint, and
\* leaves both stored fingerprints equal to the values just computed.
C11_TableFallThrough ==
    (EngineCall /\ cfg.engine = MTSFP /\ _get_table_fingerprint(db) # PreTableFp) =>
        /\ last.fq = 1
        /\ last.ret = (query_fingerprint(db) # PreFp)
        /\ caches[fp_cache][table_cache_key] = _get_table_fingerprint(db)
        /\ NowFp = query_fingerprint(db)

-----------------------------------------------------------------------------
(* The engines with every store set and delete a step of its own *)

\* frame of a store step
StoreStep(op) ==
    /\ last' = Other(op)
    /\ UNCHANGED <<db, now, cfg, hist, changedAt>>

\* Fingerprinting.update_required up to the first store write of the setter:
\* the fast path returns; otherwise the fingerprints are compared and the
\* setter writes the time key
QueryCheckStep(force_check) ==
    IF ~_expired(caches, now) /\ ~force_check
    THEN /\ pc' = Idle
         /\ UNCHANGED caches
    ELSE LET current_fp == _cached_fingerprint(caches)
             new_fp == query_fingerprint(db)
         IN  /\ caches' = cache_set(caches, fp_cache, time_cache_key, <<now>>)
             /\ pc' = [at |-> "time_set", force |-> force_check, fp |-> new_fp,
                       ret |-> (current_fp # new_fp)]

\* update_required is entered. The tiered engine compares the table-wide
\* fingerprints and its setter writes the table-wide time key
BeginUpdateRequired(force_check) ==
    /\ pc.at = "idle"
    /\ IF cfg.engine = MTSFP
       THEN LET table_fp == _get_table_fingerprint(db)
            IN  /\ caches' = cache_set(caches, fp_cache, table_time_cache_key, <<now>>)
                /\ pc' = [at |-> "table_time_set", force |-> force_check, fp |-> table_fp,
                          ret |-> (table_fp # _cached_table_fingerprint(caches))]
       ELSE QueryCheckStep(force_check)
    /\ StoreStep("update_required")

\* the table-wide setter writes the fingerprint key; an unchanged table returns
SetTableFingerprint ==
    /\ pc.at = "table_time_set"
    /\ caches' = cache_set(caches, fp_cache, table_cache_key, pc.fp)
    /\ pc' = IF pc.ret THEN [pc EXCEPT !.at = "super"] ELSE Idle
    /\ StoreStep("set_table_fingerprint")

\* super().update_required(force_check=force_check)
SuperUpdateRequired ==
    /\ pc.at = "super"
    /\ QueryCheckStep(pc.force)
    /\ StoreStep("super_update_required")

\* the setter writes the fingerprint key, and update_required returns
SetFingerprint ==
    /\ pc.at = "time_set"
    /\ caches' = cache_set(caches, fp_cache, cache_key, Stored(pc.fp))
    /\ pc' = Idle
    /\ StoreStep("set_fingerprint")

\* del fp._cached_fingerprint: the time key is deleted
BeginDelete ==
    /\ pc.at = "idle"
    /\ caches' = cache_delete(caches, fp_cache, time_cache_key)
    /\ pc' = [Idle EXCEPT !.at = "time_deleted"]
    /\ StoreStep("delete_time_key")

\* del fp._cached_fingerprint: the fingerprint key is deleted
EndDelete ==
    /\ pc.at = "time_deleted"
    /\ caches' = cache_delete(caches, fp_cache, cache_key)
    /\ pc' = Idle
    /\ StoreStep("delete_fingerprint_key")

\* del fp._cached_table_fingerprint: the table-wide time key is deleted
BeginDeleteTable ==
    /\ pc.at = "idle"
    /\ cfg.engine = MTSFP
    /\ caches' = cache_delete(caches, fp_cache, table_time_cache_key)
    /\ pc' = [Idle EXCEPT !.at = "table_time_deleted"]
    /\ StoreStep("delete_table_time_key")

\* del fp._cached_table_fingerprint: the table-wide fingerprint key is deleted
EndDeleteTable ==
    /\ pc.at = "table_time_deleted"
    /\ caches' = cache_delete(caches, fp_cache, table_cache_key)
    /\ pc' = Idle
    /\ StoreStep("delete_table_fingerprint_key")

NextStoreSteps ==
    \/ Tick
    \/ \E i \in RowIds, tok \in TokenChoices : Insert(i, tok)
    \/ \E i \in RowIds, tok \in TokenChoices : Save(i, tok)
    \/ \E i \in RowIds : Delete(i)
    \/ \E force_check \in BOOLEAN : BeginUpdateRequired(force_check)
    \/ SetTableFingerprint
    \/ SuperUpdateRequired
    \/ SetFingerprint
    \/ BeginDelete
    \/ EndDelete
    \/ BeginDeleteTable
    \/ EndDeleteTable

SpecStoreSteps == Init /\ [][NextStoreSteps]_vars

\* C12: with every store set and delete a step of its own, in every reachable
\* state the fingerprint entry is present only if its timestamp entry is
\* present, and the table-wide fingerprint entry only if its timestamp entry is.
C12_FingerprintOnlyWithTimestamp ==
    /\ caches[fp_cache][cache_key] # NoValue
            => caches[fp_cache][time_cache_key] # NoValue
    /\ cfg.engine = MTSFP =>
            (caches[fp_cache][table_cache_key] # NoValue
                => caches[fp_cache][table_time_cache_key] # NoValue)

\* C13: deleting the cached fingerprint removes the fingerprint entry and the
\* timestamp entry and nothing else; the next update_required call answers
\* True and stores both entries again, inside the former window too.
C13_DeleteThenTrue ==
    /\ (last.op = "del_cached_fingerprint") =>
            /\ NowFp = NoValue /\ NowTime = NoValue
            /\ OtherKeysUnchanged({cache_key, time_cache_key})
    /\ (EngineCall /\ last.pre.hist = "deleted") =>
            /\ last.ret
            /\ NowFp # NoValue /\ NowTime # NoValue

-----------------------------------------------------------------------------
(* C14: the query executor failing inside update_required *)

\* Fingerprinting.update_required when self.query_fingerprint() raises: the
\* exception leaves the method before the setter; executed tells whether the
\* call ran the query at all (the fast path does not)
Fingerprinting_update_required_raising(C, t, force_check) ==
    [executed |-> (_expired(C, t) \/ force_check), caches |-> C]

\* ModelTimeStampedFingerprint.update_required when the table-wide query
\* (failing = "table") or the query-scoped query (failing = "query") raises
ModelTimeStamped_update_required_raising(C, D, t, force_check, failing) ==
    IF failing = "table" THEN [executed |-> TRUE, caches |-> C]
    ELSE LET table_fp == _get_table_fingerprint(D)
         IN  IF table_fp = _cached_table_fingerprint(C)
             THEN [executed |-> FALSE, caches |-> C]
             ELSE Fingerprinting_update_required_raising(
                      set_cached_table_fingerprint(C, table_fp, t), t, force_check)

update_required_raising(C, D, t, force_check, failing) ==
    IF cfg.engine = MTSFP
    THEN ModelTimeStamped_update_required_raising(C, D, t, force_check, failing)
    ELSE [Fingerprinting_update_required_raising(C, t, force_check)
            EXCEPT !.executed = @ /\ failing = "query"]

\* fp.update_required(force_check) with the executor failing on a query the
\* call runs: the exception reaches the caller, no answer is given
CallUpdateRequiredRaising(force_check, failing) ==
    LET r == update_required_raising(caches, db, now, force_check, failing)
    IN  /\ r.executed
        /\ caches' = r.caches
        /\ hist' = IF query_fingerprint(db) # _cached_fingerprint(caches)
                   THEN "raised" ELSE "raised_unchanged"
        /\ last' = [Other("update_required_raised") EXCEPT !.force = force_check,
                                                           !.pre = Pre]
        /\ UNCHANGED <<db, now, cfg, changedAt, pc>>

NextFailures ==
    \/ Next
    \/ \E force_check \in BOOLEAN, failing \in {"table", "query"} :
            CallUpdateRequiredRaising(force_check, failing)

SpecFailures == Init /\ [][NextFailures]_vars

\* C14: every engine. A call of update_required in which the query executor
\* fails modifies no store entry; and when the data differed from the stored
\* fingerprint at the failed call, the next call that completes off the fast
\* path, with no data change in between, answers True.
C14_FailureKeepsPendingChange ==
    /\ (last.op = "update_required_raised") => caches = last.pre.caches
    /\ (EngineCall /\ last.pre.hist = "raised"
            /\ ~(HadEntries /\ PreAge < cfg.fingerprint_expiry /\ ~last.force))
        => last.ret

-----------------------------------------------------------------------------
(* C15: construction *)

MaxFields == 3

\* model._meta.fields, in order: the field's position names it
FieldNames == 1..MaxFields

\* a model: which of its fields have auto_now=True
ModelChoices == [FieldNames -> BOOLEAN]

\* self.timestamp_column = None
NoColumn == 0

\* keyword arguments of the constructor: timestamp_column given or not
KwargChoices ==
    {[given |-> FALSE, timestamp_column |-> NoColumn]}
    \cup {[given |-> TRUE, timestamp_column |-> c] : c \in FieldNames}

\* the loop over self.model._meta.fields, left at the first auto_now field
AutoNowColumn(fields) ==
    IF \E i \in FieldNames : fields[i]
    THEN CHOOSE i \in FieldNames : fields[i] /\ \A j \in FieldNames : fields[j] => i <= j
    ELSE NoColumn

\* Fingerprinting.__init__: attributes only
Fingerprinting_init(C) ==
    [raised |-> "none", caches |-> C, timestamp_column |-> NoColumn]

\* TimeStampedFingerprint.__init__ that goes on without a timestamp column
TimeStampedFingerprint_init_unchecked(C, fields, kwargs) ==
    [Fingerprinting_init(C) EXCEPT
        !.timestamp_column = IF kwargs.given THEN kwargs.timestamp_column
                             ELSE AutoNowColumn(fields)]

\* TimeStampedFingerprint.__init__ (ModelTimeStampedFingerprint adds two keys)
TimeStampedFingerprint_init(C, fields, kwargs) ==
    LET super == Fingerprinting_init(C)
        timestamp_column == IF kwargs.given THEN kwargs.timestamp_column
                            ELSE AutoNowColumn(fields)
    IN  IF timestamp_column = NoColumn
        THEN [super EXCEPT !.raised = "ValueError"]
        ELSE [super EXCEPT !.timestamp_column = timestamp_column]

\* CachedQuerySet.__init__ without the except clause
CachedQuerySet_init_no_fallback(C, fields) ==
    TimeStampedFingerprint_init(C, fields, [given |-> FALSE, timestamp_column |-> NoColumn])

\* CachedQuerySet.__init__ without fp: TimeStampedFingerprint, on ValueError
\* Fingerprinting
CachedQuerySet_init(C, fields) ==
    LET ts == TimeStampedFingerprint_init(C, fields, [given |-> FALSE, timestamp_column |-> NoColumn])
    IN  IF ts.raised = "ValueError" THEN Fingerprinting_init(ts.caches) ELSE ts

\* what may be constructed, and with which keyword arguments
ConstructChoices ==
    {[cls |-> c, kwargs |-> k] : c \in {TSFP, MTSFP}, k \in KwargChoices}
    \cup {[cls |-> c, kwargs |-> [given |-> FALSE, timestamp_column |-> NoColumn]] :
            c \in {FP, "CachedQuerySet"}}

construct(C, what, fields) ==
    CASE what.cls = FP -> Fingerprinting_init(C)
      [] what.cls \in {TSFP, MTSFP} -> TimeStampedFingerprint_init(C, fields, what.kwargs)
      [] what.cls = "CachedQuerySet" -> CachedQuerySet_init(C, fields)

\* an engine or a CachedQuerySet is constructed over a model with these fields
Construct(what, fields) ==
    LET r == construct(caches, what, fields)
    IN  /\ caches' = r.caches
        /\ last' = [Other("construct") EXCEPT
                        !.result = [cls |-> what.cls, kwargs |-> what.kwargs,
                                    fields |-> fields, raised |-> r.raised,
                                    timestamp_column |-> r.timestamp_column],
                        !.pre = Pre]
        /\ UNCHANGED <<db, now, cfg, hist, changedAt, pc>>

NextConstruction ==
    \/ \E i \in RowIds, tok \in TokenChoices : Insert(i, tok)
    \/ \E force_check \in BOOLEAN : CallUpdateRequired(force_check)
    \/ DeleteCachedFingerprint
    \/ \E what \in ConstructChoices, fields \in ModelChoices : Construct(what, fields)

SpecConstruction == Init /\ [][NextConstruction]_vars

\* C15: a timestamp-mode engine constructed without a timestamp column takes
\* the model's (first) auto_now column, and raises ValueError when the model
\* has none; no construction, completed or failed, changes the store.
C15_Construction ==
    (last.op = "construct") =>
        /\ caches = last.pre.caches
        /\ (last.result.cls \in {TSFP, MTSFP} /\ ~last.result.kwargs.given) =>
              IF \E i \in FieldNames : last.result.fields[i]
              THEN /\ last.result.raised = "none"
                   /\ last.result.timestamp_column = AutoNowColumn(last.result.fields)
                   /\ last.result.fields[last.result.timestamp_column]
              ELSE last.result.raised = "ValueError"

\* a failed construction over a store that holds a fingerprint
C15_Witness ==
    /\ last.op = "construct"
    /\ last.result.cls = TSFP /\ ~last.result.kwargs.given
    /\ \A i \in FieldNames : ~last.result.fields[i]
    /\ last.result.raised = "ValueError"
    /\ last.pre.caches[fp_cache][cache_key] # NoValue
    /\ caches = last.pre.caches

-----------------------------------------------------------------------------
(* C16: the forms of the query argument *)

MaxTupleLen == 3

\* strings a tuple argument may hold; the test model is registered as
\* ("tests", "ModelOfRandomness")
Names == {"tests", "ModelOfRandomness", "nosuch"}

TupleChoices == UNION {[1..n -> Names] : n \in 0..MaxTupleLen}

\* values handed to a constructor as query: the model class, a queryset of
\* the model, a tuple of strings, and values that are none of these
InputChoices ==
    {[kind |-> "model", rows |-> RowIds, elems |-> <<>>]}
    \cup {[kind |-> "queryset", rows |-> q, elems |-> <<>>] : q \in QueryChoices}
    \cup {[kind |-> "tuple", rows |-> {}, elems |-> s] : s \in TupleChoices}
    \cup {[kind |-> k, rows |-> {}, elems |-> <<>>] : k \in {"str", "list", "None"}}

\* apps.get_model(app_label, model_name) finds a registered model
Registered(app_label, model_name) ==
    app_label = "tests" /\ model_name = "ModelOfRandomness"

\* what inputmodel_parse returns or raises: the rows the query matches, the model
Parsed(rows) == [raised |-> "none", rows |-> rows, model |-> "ModelOfRandomness"]
Raises(e) == [raised |-> e, rows |-> {}, model |-> "none"]

\* utils.inputmodel_parse
inputmodel_parse(inputthing) ==
    IF inputthing.kind = "model"                   \* hasattr(inputthing, "objects")
    THEN Parsed(RowIds)                            \* inputthing.objects.all()
    ELSE IF inputthing.kind = "queryset"           \* hasattr(inputthing, "model")
    THEN Parsed(inputthing.rows)
    ELSE IF inputthing.kind = "tuple"
    THEN IF Len(inputthing.elems) < 2 THEN Raises("IndexError")    \* inputthing[1]
         ELSE IF Registered(inputthing.elems[1], inputthing.elems[2])
         THEN Parsed(RowIds)                       \* _m.objects.all()
         ELSE Raises("LookupError")                \* apps.get_model
    ELSE Raises("TypeError")

\* query_to_key(query, suffix) for a query given by its table and the rows
\* it selects (the statement text and parameters)
query_to_key_of(parsed, suffix) == <<parsed.model, parsed.rows, suffix>>

\* Fingerprinting(inputthing): the parse comes first; then the derived key,
\* and query_fingerprint() of the engine over the data
Fingerprinting_of(C, D, inputthing) ==
    LET p == inputmodel_parse(inputthing)
    IN  IF p.raised # "none"
        THEN [raised |-> p.raised, caches |-> C, key |-> NoValue, fingerprint |-> NoValue]
        ELSE [raised |-> "none", caches |-> C,
              key |-> query_to_key_of(p, "_hash"),
              fingerprint |-> <<"xor", XorRows(D, DOMAIN D \cap p.rows)>>]

\* fp = Fingerprinting(inputthing); fp.query_fingerprint()
ConstructFrom(inputthing) ==
    LET r == Fingerprinting_of(caches, db, inputthing)
    IN  /\ caches' = r.caches
        /\ last' = [Other("Fingerprinting") EXCEPT
                        !.result = [input |-> inputthing, raised |-> r.raised,
                                    key |-> r.key, fingerprint |-> r.fingerprint],
                        !.pre = Pre]
        /\ UNCHANGED <<db, now, cfg, hist, changedAt, pc>>

InitInputs ==
    /\ InitCommon
    /\ cfg \in {c \in EngineConfigs : c.engine = FP /\ c.query = RowIds}

NextInputs ==
    \/ \E i \in RowIds, tok \in TokenChoices : Insert(i, tok)
    \/ \E i \in RowIds, tok \in TokenChoices : Save(i, tok)
    \/ \E i \in RowIds : Delete(i)
    \/ \E force_check \in BOOLEAN : CallUpdateRequired(force_check)
    \/ \E inputthing \in InputChoices : ConstructFrom(inputthing)

SpecInputs == InitInputs /\ [][NextInputs]_vars

\* the three forms of the claim
ModelForm == [kind |-> "model", rows |-> RowIds, elems |-> <<>>]
QueryForm == [kind |-> "queryset", rows |-> RowIds, elems |-> <<>>]
PairForm == [kind |-> "tuple", rows |-> {}, elems |-> <<"tests", "ModelOfRandomness">>]

\* the three forms give the key and fingerprint of the model form
SameAsModelForm ==
    LET m == Fingerprinting_of(caches, db, ModelForm)
    IN  /\ last.result.raised = "none"
        /\ last.result.key = m.key
        /\ last.result.fingerprint = m.fingerprint

\* C16: the model, a queryset over all its rows and the pair give
\* the same key and fingerprint; an input that is not a model, a queryset or
\* a pair fails with TypeError, the store untouched.
C16_InputForms ==
    (last.op = "Fingerprinting") =>
        /\ last.result.input \in {ModelForm, QueryForm, PairForm} => SameAsModelForm
        /\ (last.result.input.kind \notin {"model", "queryset"}
                /\ Len(last.result.input.elems) # 2) =>
              (last.result.raised = "TypeError" /\ caches = last.pre.caches)

-----------------------------------------------------------------------------
(* The content fingerprint as the hexadecimal string the code builds *)

\* characters of a hexadecimal string: 0..9 the digits, 10..15 the letters
\* a..f, 16..21 the letters A..F
FullWidth == 32
ShortWidth == 8

\* int(c, 16) of one character
CharVal(c) == IF c >= 16 THEN c - 6 ELSE c

\* "%X" of one digit value: upper-case letters
Upper(v) == IF v >= 10 THEN v + 6 ELSE v

Zeros(n) == [i \in 1..n |-> 0]

RECURSIVE StripZeros(_)
StripZeros(s) ==
    IF s = <<>> THEN <<>>
    ELSE IF Head(s) = 0 THEN StripZeros(Tail(s)) ELSE s

\* int(s, 16): the digit values, most significant first, no leading zero
int16(s) == StripZeros([i \in 1..Len(s) |-> CharVal(s[i])])

\* a ^ b on integers given by their digit values
IntXor(a, b) ==
    LET n == IF Len(a) >= Len(b) THEN Len(a) ELSE Len(b)
        pa == Zeros(n - Len(a)) \o a
        pb == Zeros(n - Len(b)) \o b
    IN  StripZeros([i \in 1..n |-> BitXor(pa[i], pb[i])])

\* "%X" % n
FormatX(n) == IF n = <<>> THEN <<0>> ELSE [i \in 1..Len(n) |-> Upper(n[i])]

\* str.zfill(width)
zfill(s, width) == IF Len(s) >= width THEN s ELSE Zeros(width - Len(s)) \o s

\* a reduction step that keeps the first non-zero token
hexxor_keeps_first(a, b) ==
    IF int16(a) = <<>> THEN zfill(FormatX(int16(b)), Len(a)) ELSE a

\* hexxor(a, b) of query_fingerprint
hexxor(a, b) == zfill(FormatX(IntXor(int16(a), int16(b))), Len(a))

RECURSIVE reduce_hexxor(_, _)
\* reduce(hexxor, tokens, initial)
reduce_hexxor(tokens, initial) ==
    IF tokens = <<>> THEN initial
    ELSE reduce_hexxor(Tail(tokens), hexxor(initial, Head(tokens)))

\* PostgreSQL substring(s from start for count): the characters at positions
\* start .. start + count - 1 that exist (positions begin at 1)
Substring(s, start, count) ==
    SubSeq(s, IF start < 1 THEN 1 ELSE start,
              IF start + count - 1 > Len(s) THEN Len(s) ELSE start + count - 1)

(* Rows are told apart by a content number. MD5 gives each content a digest
   of 32 lower-case hexadecimal characters: contents 2k and 2k+1 have digests
   that begin with the same character (their XOR has a leading zero), and
   content 0 has a digest that begins with "0". *)
MD5(content) ==
    [i \in 1..FullWidth |->
        IF i = 1 THEN (content \div 2) % 16 ELSE ((content + 1) * i) % 16]

\* the hashfields columns of a row: contents 2k and 2k+1 agree on them
SomeCols(content) == content \div 2

\* MD5 of the hashfields columns cast to text and joined
MD5Cols(content) ==
    [i \in 1..FullWidth |-> ((SomeCols(content) + 3) * (i + 1)) % 16]

\* the annotation Fingerprinting.__init__ selects, applied to one row
RowFullHash(content) == MD5(content)
RowHash(content) == Substring(MD5(content), 1, ShortWidth)
SomeColsFullHash(content) == Substring(MD5Cols(content), 1, ShortWidth)
SomeColsHash(content) == Substring(MD5Cols(content), 0, ShortWidth)

fingerprint(content, hashfields, long_hash) ==
    IF hashfields
    THEN IF long_hash THEN SomeColsFullHash(content) ELSE SomeColsHash(content)
    ELSE IF long_hash THEN RowFullHash(content) ELSE RowHash(content)

\* md5("{pk__count}{newest_timestamp}".encode()).hexdigest(): 32 lower-case
\* hexadecimal characters set by the count and the newest timestamp
md5_hexdigest(count, newest) ==
    [i \in 1..FullWidth |-> ((count * 7) + (newest * 3) + (i * (count + newest + 1))) % 16]

\* TimeStampedFingerprint.query_fingerprint as the string it returns
TimeStamped_query_fingerprint_hex(D) ==
    LET S == QueryRows(D)
    IN  md5_hexdigest(Cardinality(S), IF S = {} THEN 0 ELSE Max({D[i].ts : i \in S}))

\* Fingerprinting.query_fingerprint over the rows in the order the query
\* returns them
query_fingerprint_hex(contents, hashfields, long_hash) ==
    reduce_hexxor([i \in 1..Len(contents) |-> fingerprint(contents[i], hashfields, long_hash)],
                  Zeros(IF long_hash THEN FullWidth ELSE ShortWidth))

-----------------------------------------------------------------------------
(* C17..C20: the fingerprint strings *)

MaxContent == 3

Contents == 0..MaxContent

\* the orders in which a query may return the rows S
Orderings(S) ==
    {f \in [1..Cardinality(S) -> S] : \A i, j \in 1..Cardinality(S) : f[i] = f[j] => i = j}

ContentsIn(order) == [i \in 1..Len(order) |-> db[order[i]].tok]

\* Fingerprinting(query.order_by(...), hashfields, long_hash).query_fingerprint()
QueryFingerprint(order, hashfields, long_hash) ==
    /\ last' = [Other("query_fingerprint") EXCEPT
                    !.result = [order |-> order, hashfields |-> hashfields,
                                long_hash |-> long_hash,
                                value |-> query_fingerprint_hex(ContentsIn(order),
                                                                hashfields, long_hash)]]
    /\ UNCHANGED <<db, now, caches, cfg, hist, changedAt, pc>>

\* TimeStampedFingerprint(query, long_hash=long_hash).query_fingerprint()
QueryFingerprintTimeStamped(long_hash) ==
    /\ cfg.engine = TSFP
    /\ last' = [Other("query_fingerprint_ts") EXCEPT
                    !.result = [long_hash |-> long_hash,
                                value |-> TimeStamped_query_fingerprint_hex(db)]]
    /\ UNCHANGED <<db, now, caches, cfg, hist, changedAt, pc>>

InitFingerprint ==
    /\ InitCommon
    /\ cfg \in {c \in EngineConfigs : c.engine \in {FP, TSFP} /\ c.fingerprint_expiry > 0}

ContentChoices == IF cfg.auto_now THEN {0} ELSE Contents

NextFingerprint ==
    \/ Tick
    \/ \E i \in RowIds, c \in ContentChoices : Insert(i, c)
    \/ \E i \in RowIds : Delete(i)
    \/ \E order \in Orderings(QueryRows(db)), hashfields \in BOOLEAN, long_hash \in BOOLEAN :
            cfg.engine = FP /\ QueryFingerprint(order, hashfields, long_hash)
    \/ \E long_hash \in BOOLEAN : QueryFingerprintTimeStamped(long_hash)

SpecFingerprint == InitFingerprint /\ [][NextFingerprint]_vars

Computed == last.op = "query_fingerprint"

\* C17: whatever the order in which the query returns its rows,
\* query_fingerprint() returns the same string.
C17_OrderIndependent ==
    Computed =>
        \A order \in Orderings(QueryRows(db)) :
            query_fingerprint_hex(ContentsIn(order), last.result.hashfields,
                                  last.result.long_hash) = last.result.value

\* two rows of different tokens, returned in descending order of their ids
C17_Witness ==
    /\ Computed
    /\ Len(last.result.order) >= 2
    /\ last.result.order[1] > last.result.order[2]
    /\ ~last.result.hashfields
    /\ db[last.result.order[1]].tok # db[last.result.order[2]].tok
    /\ last.result.value # Zeros(Len(last.result.value))

\* C18: for whole-row hashing and for hashfields hashing, the short-mode
\* fingerprint of the data is the first 8 characters of its long-mode
\* fingerprint.
C18_ShortIsPrefixOfLong ==
    Computed =>
        LET contents == ContentsIn(last.result.order)
            short == query_fingerprint_hex(contents, last.result.hashfields, FALSE)
            long == query_fingerprint_hex(contents, last.result.hashfields, TRUE)
        IN  short = SubSeq(long, 1, ShortWidth)

ComputedTimeStamped == last.op = "query_fingerprint_ts"

IsHex(s) == \A i \in 1..Len(s) : s[i] \in 0..21

\* the width the mode asks for
ModeWidth == IF last.result.long_hash THEN FullWidth ELSE ShortWidth

\* C19: query_fingerprint() returns a hexadecimal string of exactly 8
\* characters in short mode and 32 in long mode, for every row set, for
\* whole-row and hashfields hashing and for timestamp mode.
C19_TokenWidth ==
    (Computed \/ ComputedTimeStamped) =>
        /\ IsHex(last.result.value)
        /\ Len(last.result.value) = ModeWidth

\* What the engines return: the content fingerprint has 8 characters in short
\* mode and 32 in long mode; the timestamp-mode fingerprint has 32 characters
\* whatever the mode. Both are hexadecimal strings.
FingerprintWidth ==
    /\ Computed => (IsHex(last.result.value) /\ Len(last.result.value) = ModeWidth)
    /\ ComputedTimeStamped =>
            (IsHex(last.result.value) /\ Len(last.result.value) = FullWidth)

\* a short whole-row fingerprint of two rows whose XOR begins with a zero
LeadingZeroFingerprint ==
    /\ Computed
    /\ ~last.result.hashfields /\ ~last.result.long_hash
    /\ Len(last.result.order) = 2
    /\ last.result.value[1] = 0
    /\ last.result.value # Zeros(ShortWidth)
    /\ Len(last.result.value) = ShortWidth

\* the per-row tokens of one row, truncated and full, in one hashing mode
TruncatedToken(i, hashfields) == fingerprint(db[i].tok, hashfields, FALSE)
FullToken(i, hashfields) == fingerprint(db[i].tok, hashfields, TRUE)

\* C20: for whole-row and column-subset hashing alike, the truncated per-row
\* token is the first 8 characters of the full per-row token, and the full
\* token is the complete 32-character hash.
C20_TruncatedIsPrefixOfFull ==
    Computed =>
        \A k \in 1..Len(last.result.order) :
            LET i == last.result.order[k]
                hashfields == last.result.hashfields
            IN  /\ TruncatedToken(i, hashfields)
                        = SubSeq(FullToken(i, hashfields), 1, ShortWidth)
                /\ Len(FullToken(i, hashfields)) = FullWidth

\* C20 for whole-row hashing alone
WholeRowTruncatedIsPrefixOfFull ==
    (Computed /\ ~last.result.hashfields) => C20_TruncatedIsPrefixOfFull

-----------------------------------------------------------------------------
(* C21: the fingerprint of an empty result set in timestamp mode *)

\* the stored fingerprint is the one an earlier call computed over no rows
PreFpOfEmptyResult == PreFp = Stored(query_fingerprint(<<>>))

\* C21: timestamp engines (fingerprinting.py's and the one CachedQuerySet
\* builds by default). A call that computes the fingerprint of an empty result
\* set when the stored fingerprint was also computed over an empty result set
\* finds them equal and answers False: the value for no rows is a fixed one.
C21_EmptyResultSentinel ==
    (/\ last.op \in {"update_required", "get_with_update"}
     /\ cfg.engine \in {TSFP, CM_TSFP}
     /\ last.fq = 1
     /\ QueryRows(db) = {}
     /\ PreFpOfEmptyResult) => ~last.ret

-----------------------------------------------------------------------------
(* The expiry window the constructors settle on.  In this specification the *)
(* clock and the windows count tenths of a second.                          *)

\* fingerprint_expiry: int = 30 and "fingerprint_expiry or 30", in tenths
DefaultExpiry == 300

\* self.fingerprint_expiry = 0.1, in tenths
TimestampDefaultExpiry == 1

\* the fingerprint_expiry keyword: not passed, passed as None, passed as a number
ExpiryAbsent == [given |-> FALSE, none |-> TRUE, value |-> 0]
ExpiryNone == [given |-> TRUE, none |-> TRUE, value |-> 0]
ExpiryArgs ==
    {ExpiryAbsent, ExpiryNone}
    \cup {[given |-> TRUE, none |-> FALSE, value |-> v] : v \in {-1, 0, 2}}

\* Fingerprinting.__init__: the parameter's default, then "or 30"
Fingerprinting_fingerprint_expiry(arg) ==
    LET fingerprint_expiry == IF arg.given THEN arg ELSE [arg EXCEPT !.none = FALSE,
                                                                   !.value = DefaultExpiry]
    IN  IF fingerprint_expiry.none \/ fingerprint_expiry.value = 0
        THEN DefaultExpiry
        ELSE fingerprint_expiry.value

\* TimeStampedFingerprint.__init__: 0.1 when the keyword was not passed
TimeStamped_fingerprint_expiry(arg) ==
    IF ~arg.given THEN TimestampDefaultExpiry
    ELSE Fingerprinting_fingerprint_expiry(arg)

\* CachedQuerySet.__init__: fingerprint_expiry=kwargs.get("fingerprint_expiry", None)
CachedQuerySet_fingerprint_expiry_kwarg(arg) ==
    IF arg.given THEN arg ELSE ExpiryNone

\* the window of the engine a constructor call leaves behind
fingerprint_expiry_of(arg) ==
    LET passed == IF cfg.cached_queryset
                  THEN CachedQuerySet_fingerprint_expiry_kwarg(arg) ELSE arg
    IN  IF cfg.engine \in TimestampEngines
        THEN TimeStamped_fingerprint_expiry(passed)
        ELSE Fingerprinting_fingerprint_expiry(passed)

\* a new engine, or a new CachedQuerySet, of the same class over the same query
ConstructWithExpiry(arg) ==
    /\ cfg' = [cfg EXCEPT !.fingerprint_expiry = fingerprint_expiry_of(arg)]
    /\ last' = [Other("construct_with_expiry") EXCEPT !.result = arg, !.pre = Pre]
    /\ UNCHANGED <<db, now, caches, hist, changedAt, pc>>

InitDefaults ==
    /\ InitCommon
    /\ cfg \in {c \in EngineConfigs \cup CachedQuerySetConfigs :
                    /\ c.query = RowIds
                    /\ c.fingerprint_expiry = 2
                    /\ c.backend = RealBackends /\ c.cache_alias = "default"}

NextDefaults ==
    \/ Tick
    \/ \E i \in RowIds, tok \in TokenChoices : Insert(i, tok)
    \/ \E arg \in ExpiryArgs : ConstructWithExpiry(arg)
    \/ cfg.cached_queryset /\ GetWithUpdate
    \/ ~cfg.cached_queryset /\ CallUpdateRequired(FALSE)

SpecDefaults == InitDefaults /\ [][NextDefaults]_vars

\* C22: constructed without an expiry window, a content-hash engine has a
\* window of 30 seconds and a timestamp-mode engine one of 0.1 seconds, the
\* engine of a CachedQuerySet that was given no window included.
C22_DefaultExpiry ==
    (last.op = "construct_with_expiry" /\ ~last.result.given) =>
        cfg.fingerprint_expiry = IF cfg.engine \in TimestampEngines
                                 THEN TimestampDefaultExpiry ELSE DefaultExpiry

\* C22 for engines constructed directly
DefaultExpiryOfEngines ==
    ~cfg.cached_queryset => C22_DefaultExpiry

-----------------------------------------------------------------------------
(* utils.query_to_key over the compiled statement and its bound parameters *)

MaxParams == 2

\* a bound parameter value: its Python type and what str() makes of it
ParamValues ==
    {[type |-> "str", text |-> t] : t \in {"a", "ab", "bc", "c", "1"}}
    \cup {[type |-> "int", text |-> "1"]}

ParamLists == UNION {[1..n -> ParamValues] : n \in 0..MaxParams}

\* query.query.sql_with_params() of queries on one table: statement text, parameters
SqlTexts == {"SELECT", "SELECT WHERE"}
Queries == [sql : SqlTexts, params : ParamLists]

\* str(value)
str(value) == value.text

RECURSIVE join(_)
\* "".join(map(str, params))
join(params) ==
    IF params = <<>> THEN ""
    ELSE str(Head(params)) \o join(Tail(params))

\* md5(text.encode()).hexdigest()[:4], taken as collision-free
md5_hexdigest_4(text) == <<"md5", text>>

\* utils.query_to_key: f"{base_table}_{query_hex}{params_hex}{suffix}"
query_to_key_sql_with_params(query, suffix) ==
    LET query_hex == md5_hexdigest_4(query.sql)
        params_hex == md5_hexdigest_4(join(query.params))
    IN  <<"base_table", query_hex, params_hex, suffix>>

\* the query keyed before this one (at first: a statement without parameters)
KeyedBefore ==
    IF last.op = "query_to_key" THEN last.result.b
    ELSE [sql |-> "SELECT", params |-> <<>>]

\* query_to_key(b), next to the key of the query on the same table keyed before it
QueryToKey(b) ==
    LET a == KeyedBefore
    IN  /\ last' = [Other("query_to_key") EXCEPT
                        !.result = [a |-> a, b |-> b,
                                    key_a |-> query_to_key_sql_with_params(a, ""),
                                    key_b |-> query_to_key_sql_with_params(b, "")]]
        /\ UNCHANGED <<db, now, caches, cfg, hist, changedAt, pc>>

InitKeys ==
    /\ InitCommon
    /\ cfg \in {c \in EngineConfigs : c.engine = FP /\ c.query = RowIds}

NextKeys == \E b \in Queries : QueryToKey(b)

SpecKeys == InitKeys /\ [][NextKeys]_vars

\* C23: with a collision-free digest, two queries on the same table have the
\* same key exactly when their statement text and their ordered list of
\* parameter values are the same.
C23_KeyIffSameStatementAndParams ==
    (last.op = "query_to_key") =>
        ((last.result.key_a = last.result.key_b)
            <=> (/\ last.result.a.sql = last.result.b.sql
                 /\ last.result.a.params = last.result.b.params))

\* the half of C23 that holds: the same statement and parameters, the same key
SameQuerySameKey ==
    (last.op = "query_to_key"
        /\ last.result.a.sql = last.result.b.sql
        /\ last.result.a.params = last.result.b.params)
    => last.result.key_a = last.result.key_b

-----------------------------------------------------------------------------
(* The tiered engine polled for ever: the clock runs on and update_required *)
(* keeps being called.  Writes stop early enough for a window to elapse     *)
(* before the clock's bound.                                                *)

PositiveExpiryChoices == {1, 2}

TieredConfigs ==
    {[c EXCEPT !.fingerprint_expiry = x] :
        c \in {e \in EngineConfigs : e.engine = MTSFP}, x \in PositiveExpiryChoices}

InitTiered == InitCommon /\ cfg \in TieredConfigs

\* a full expiry window fits between now and the end of the clock
WindowAhead == now + cfg.fingerprint_expiry <= MaxTime

NextTiered ==
    \/ Tick
    \/ \E i \in RowIds : WindowAhead /\ Insert(i, 0)
    \/ \E i \in RowIds : WindowAhead /\ Save(i, 0)
    \/ \E i \in RowIds : WindowAhead /\ Delete(i)
    \/ CallUpdateRequired(FALSE)

SpecTieredLiveness ==
    /\ InitTiered
    /\ [][NextTiered]_vars
    /\ WF_vars(Tick)
    /\ WF_vars(CallUpdateRequired(FALSE))

\* a change of the query's rows that no call has reported: the stored
\* query-scoped fingerprint is not the fingerprint of the data
PendingChange == NowFp # NoValue /\ NowFp # query_fingerprint(db)

\* the stored fingerprint is the data's: a call found the difference and
\* answered True (or a later write took the change back)
ChangeSeen == NowFp = query_fingerprint(db)

\* C24: tiered engine, positive window, update_required called again and
\* again: a change of a row of the query is followed by a call that answers
\* True; it is not taken up by the table-wide check and then dropped by the
\* query-scoped one.
C24_TieredChangeEventuallyReported == PendingChange ~> ChangeSeen

-----------------------------------------------------------------------------
(* C27: force_check *)

\* C27: every engine. update_required(force_check=True) computes the
\* query-scoped fingerprint whatever the age of the stored one, and answers
\* True exactly when it differs from the stored query-scoped fingerprint.
C27_ForceCheckIgnoresAge ==
    (EngineCall /\ last.force) =>
        /\ last.fq = 1
        /\ last.ret = (query_fingerprint(db) # PreFp)

\* C27 for the calls that reach Fingerprinting.update_required
ForceCheckOnceReached ==
    (EngineCall /\ last.force /\ ReachedQueryCheck) =>
        /\ last.fq = 1
        /\ last.ret = (query_fingerprint(db) # PreFp)

-----------------------------------------------------------------------------
(* The tiered engine next to the plain timestamp engine: the same query,    *)
(* the same writes, each engine on a store of its own that starts empty.    *)
(* The plain engine's store is the one under the alias "other".  changedAt  *)
(* is the newest timestamp a write has given so far.                        *)

\* the two stores exchanged
Swap(C) == [a \in Aliases |-> IF a = "default" THEN C["other"] ELSE C["default"]]

\* TimeStampedFingerprint.update_required on its own store: the keys, the
\* fingerprint and the window are those of the tiered engine's query-scoped part
Plain_update_required(C, D, t, force_check) ==
    LET r == Fingerprinting_update_required(Swap(C), D, t, force_check)
    IN  [r EXCEPT !.caches = Swap(r.caches)]

\* the write stamps its row with a time newer than every row's
NewerThanAll == \A i \in DOMAIN db : db[i].ts < now

\* changedAt once a write has given a timestamp that an earlier write (of a
\* row since deleted or saved again) had given already
NotIncreasing == -1

\* the write is stamped with the clock: the newest timestamp given so far
Stamped ==
    /\ changedAt' = IF changedAt = NotIncreasing \/ changedAt >= now
                     THEN NotIncreasing ELSE now
    /\ hist' = "dirty"
    /\ last' = Other("write")
    /\ UNCHANGED <<now, caches, cfg, pc>>

\* Model(...).save() of a new row, stamped newer than every row
StampedInsert(i) ==
    /\ i \notin DOMAIN db
    /\ NewerThanAll
    /\ db' = (i :> [tok |-> 0, ts |-> now]) @@ db
    /\ Stamped

\* row.save() of an existing row, stamped newer than every row
StampedSave(i) ==
    /\ i \in DOMAIN db
    /\ NewerThanAll
    /\ db' = [db EXCEPT ![i] = [tok |-> 0, ts |-> now]]
    /\ Stamped

\* the same call made on both engines
CallBoth(force_check) ==
    LET tiered == ModelTimeStamped_update_required(caches, db, now, force_check)
        plain == Plain_update_required(tiered.caches, db, now, force_check)
    IN  /\ caches' = plain.caches
        /\ hist' = IF tiered.ret THEN "true" ELSE "false"
        /\ last' = [op |-> "update_required_both", force |-> force_check,
                    ret |-> tiered.ret, path |-> tiered.path, fq |-> tiered.fq,
                    tq |-> tiered.tq, sq |-> 0, absent |-> FALSE,
                    result |-> [plain |-> plain.ret], pre |-> Pre]
        /\ UNCHANGED <<db, now, cfg, changedAt, pc>>

InitRefinement ==
    /\ InitCommon
    /\ cfg \in {c \in EngineConfigs : c.engine = MTSFP /\ c.fingerprint_expiry < 0}

NextRefinement ==
    \/ Tick
    \/ \E i \in RowIds : StampedInsert(i)
    \/ \E i \in RowIds : StampedSave(i)
    \/ \E i \in RowIds : Delete(i)
    \/ \E force_check \in BOOLEAN : CallBoth(force_check)

SpecRefinement == InitRefinement /\ [][NextRefinement]_vars

\* C30 as stated: every write stamping its row newer than all rows that
\* exist, and the window elapsed at every call: the tiered engine answers each
\* call as the plain timestamp engine does on the same writes and calls.
C30_Original ==
    (last.op = "update_required_both") => last.ret = last.result.plain

\* C30 as amended: every write stamping its row newer than every timestamp
\* given before, those of rows since deleted included, and the window elapsed
\* at every call: the tiered engine answers each call as the plain engine does.
C30_TieredAnswersAsPlain ==
    (last.op = "update_required_both" /\ changedAt # NotIncreasing) =>
        last.ret = last.result.plain

\* a row the query does not match was deleted: the table-wide fingerprint
\* changed, the query-scoped one did not, and both engines answer False
C30_Witness ==
    /\ last.op = "update_required_both"
    /\ changedAt # NotIncreasing
    /\ last.pre.hist = "dirty"
    /\ last.path = "full"
    /\ ~last.ret /\ ~last.result.plain
    /\ QueryRows(db) # {}

-----------------------------------------------------------------------------
(* Concurrent callers on one key.  Every store operation, every database    *)
(* query and every read of the clock is one step of its caller; pc maps     *)
(* each caller to its position and to what it holds.                        *)

Callers == {"A", "B"}

\* a caller outside any call
CallerIdle ==
    [at |-> "idle", fetch |-> "none", current_fp |-> NoValue, new_fp |-> NoValue,
     ret |-> FALSE, value |-> NoValue, quiet |-> FALSE, done |-> 0]

AllIdle == \A p \in Callers : pc[p].at = "idle"

\* a step of a caller that is not the return of a call
CallerStep(op) ==
    /\ last' = Other(op)
    /\ UNCHANGED <<db, now, cfg, changedAt>>

\* "if current_fp == new_fp ... return False" answering False on either branch
fingerprint_changed_never(current_fp, new_fp) == FALSE

\* "if current_fp == new_fp ... return False", else True
fingerprint_changed(current_fp, new_fp) == current_fp # new_fp

\* where a caller goes when update_required returns: out of the call, or on
\* with update_if_required (the value key was absent: the answer is dropped)
AfterUpdateRequired(c, ret) ==
    CASE c.fetch = "none" -> [CallerIdle EXCEPT !.done = now]
      [] c.fetch = "absent" -> [c EXCEPT !.at = "read_value", !.ret = ret]
      [] c.fetch = "present" ->
            [c EXCEPT !.at = IF ret THEN "serialize" ELSE "read_value", !.ret = ret]

\* update_required returns ret to caller p
ReturnUpdateRequired(p, ret) ==
    /\ pc' = [pc EXCEPT ![p] = AfterUpdateRequired(pc[p], ret)]
    /\ hist' = IF ret /\ ~cfg.cached_queryset THEN "true" ELSE hist
    /\ last' = [Other("update_required_returned") EXCEPT !.ret = ret]
    /\ UNCHANGED <<db, now, cfg, changedAt>>

\* fp.update_required() is called
EnterUpdateRequired(p) ==
    /\ pc[p].at = "idle"
    /\ pc' = [pc EXCEPT ![p] = [CallerIdle EXCEPT !.at = "expired"]]
    /\ UNCHANGED <<caches, hist>>
    /\ CallerStep("enter")

\* _expired: "if not self._cached_fingerprint"
ExpiredGetFingerprint(p) ==
    /\ pc[p].at = "expired"
    /\ pc' = [pc EXCEPT ![p].at = IF _cached_fingerprint(caches) = NoValue
                                  THEN "current" ELSE "expired_time"]
    /\ UNCHANGED <<caches, hist>>
    /\ CallerStep("expired_get_fingerprint")

\* _expired: the time key is read and the age taken; a fresh fingerprint
\* returns False from update_required
ExpiredGetTime(p) ==
    /\ pc[p].at = "expired_time"
    /\ LET cached_fingerprint_timestamp == cache_get(caches, fp_cache, time_cache_key)
       IN  IF cached_fingerprint_timestamp # NoValue
                /\ now - cached_fingerprint_timestamp[1] < cfg.fingerprint_expiry
           THEN ReturnUpdateRequired(p, FALSE)
           ELSE /\ pc' = [pc EXCEPT ![p].at = "current"]
                /\ UNCHANGED hist
                /\ CallerStep("expired_get_time")
    /\ UNCHANGED caches

\* current_fp = self._cached_fingerprint
GetCurrentFingerprint(p) ==
    /\ pc[p].at = "current"
    /\ pc' = [pc EXCEPT ![p].at = "query", ![p].current_fp = _cached_fingerprint(caches)]
    /\ UNCHANGED <<caches, hist>>
    /\ CallerStep("get_current_fingerprint")

\* new_fp = self.query_fingerprint()
QueryNewFingerprint(p) ==
    /\ pc[p].at = "query"
    /\ pc' = [pc EXCEPT ![p].at = "set_time", ![p].new_fp = query_fingerprint(db)]
    /\ UNCHANGED <<caches, hist>>
    /\ CallerStep("query_fingerprint")

\* the setter: self.cache.set(self.time_cache_key, utcnow().timestamp())
SetTimeKey(p) ==
    /\ pc[p].at = "set_time"
    /\ caches' = cache_set(caches, fp_cache, time_cache_key, <<now>>)
    /\ pc' = [pc EXCEPT ![p].at = "set_fingerprint"]
    /\ UNCHANGED hist
    /\ CallerStep("set_time_key")

\* the setter: self.cache.set(self.cache_key, value); update_required returns
SetFingerprintKey(p) ==
    /\ pc[p].at = "set_fingerprint"
    /\ caches' = cache_set(caches, fp_cache, cache_key, Stored(pc[p].new_fp))
    /\ ReturnUpdateRequired(p, fingerprint_changed(pc[p].current_fp, pc[p].new_fp))

\* a step of caller p inside update_required
UpdateRequiredStep(p) ==
    \/ ExpiredGetFingerprint(p)
    \/ ExpiredGetTime(p)
    \/ GetCurrentFingerprint(p)
    \/ QueryNewFingerprint(p)
    \/ SetTimeKey(p)
    \/ SetFingerprintKey(p)

\* the one change of the data: the fingerprint moves from F0 to F1
SingleChange ==
    /\ hist = "none"
    /\ \/ \E i \in RowIds, tok \in TokenChoices : Insert(i, tok)
       \/ \E i \in RowIds, tok \in TokenChoices : Save(i, tok)
       \/ \E i \in RowIds : Delete(i)
    /\ query_fingerprint(db') # query_fingerprint(db)

\* the store as a completed update_required left it at clock value 1, with
\* fingerprint F0 of the data
InitConcurrent ==
    /\ cfg \in {c \in EngineConfigs : c.engine \in {FP, TSFP} /\ c.query = RowIds}
    /\ now = 1
    /\ db \in {<<>>} \cup {(i :> [tok |-> tok, ts |-> stamp]) : i \in {1}, tok \in TokenChoices}
    /\ caches = set_cached_fingerprint(EmptyCaches, query_fingerprint(db), now)
    /\ hist = "none"
    /\ changedAt = 0
    /\ last = Other("init")
    /\ pc = [p \in Callers |-> CallerIdle]

NextConcurrent ==
    \/ Tick
    \/ SingleChange
    \/ \E p \in Callers : EnterUpdateRequired(p)
    \/ \E p \in Callers : UpdateRequiredStep(p)

\* the clock runs and every caller goes on, call after call
SpecConcurrent ==
    /\ InitConcurrent
    /\ [][NextConcurrent]_vars
    /\ WF_vars(Tick)
    /\ \A p \in Callers : WF_vars(EnterUpdateRequired(p) \/ UpdateRequiredStep(p))

\* the change was made and the stored fingerprint is F1, that of the data
StoredIsNew == hist # "none" /\ NowFp = query_fingerprint(db)

\* a window can still elapse before the clock's bound
CanExpire == NowTime = NoValue \/ MaxTime - NowTime[1] >= cfg.fingerprint_expiry

\* no call is in progress, F1 is stored, and some call answered True
TrueWhenStored == (AllIdle /\ StoredIsNew) => hist = "true"

\* C26: content-hash or timestamp engine, concurrent callers, one change of
\* the data from F0 (stored) to F1. Whenever all calls have completed and F1
\* is stored, some call has answered True; and with calls going on past the
\* expiry window, F1 is eventually stored.
C26_ConcurrentCallers ==
    /\ []TrueWhenStored
    /\ (hist # "none") ~> (StoredIsNew \/ ~CanExpire)

\* a race: F1 was stored and answered with True, then a slower caller that
\* had queried before the change put F0 back
C26_Witness ==
    /\ AllIdle
    /\ hist = "true"
    /\ NowFp # NoValue /\ NowFp # query_fingerprint(db)

-----------------------------------------------------------------------------
(* Concurrent get_with_update() callers of one CachedQuerySet key, on a     *)
(* store that keeps what is set, next to a writer of the table.             *)

\* get_with_update() is called. The caller notes whether the table and the
\* other callers have been quiet for more than a window
EnterFetch(p) ==
    /\ pc[p].at = "idle"
    /\ pc' = [pc EXCEPT ![p] =
                [CallerIdle EXCEPT
                    !.at = "contains",
                    !.quiet = /\ now - changedAt > cfg.fingerprint_expiry
                              /\ \A q \in Callers :
                                    /\ pc[q].at = "idle"
                                    /\ now - pc[q].done > cfg.fingerprint_expiry]]
    /\ UNCHANGED <<caches, hist>>
    /\ CallerStep("enter_fetch")

\* update_if_required: "if self.cache_key not in self.cache"
CheckValueKey(p) ==
    /\ pc[p].at = "contains"
    /\ pc' = [pc EXCEPT ![p] =
                IF cache_contains(caches, cqs_cache, value_key)
                THEN [pc[p] EXCEPT !.fetch = "present", !.at = "expired"]
                ELSE [pc[p] EXCEPT !.fetch = "absent", !.at = "serialize"]]
    /\ UNCHANGED <<caches, hist>>
    /\ CallerStep("check_value_key")

\* update_cache: self.get_serialized_query()
SerializeQuery(p) ==
    /\ pc[p].at = "serialize"
    /\ pc' = [pc EXCEPT ![p].at = "set_value", ![p].value = <<get_serialized_query(db)>>]
    /\ UNCHANGED <<caches, hist>>
    /\ CallerStep("get_serialized_query")

\* update_cache: self.cache.set(self.cache_key, value); with the key absent
\* before, fp.update_required() follows
SetValueKey(p) ==
    /\ pc[p].at = "set_value"
    /\ caches' = cache_set(caches, cqs_cache, value_key, pc[p].value)
    /\ pc' = [pc EXCEPT ![p].at = IF pc[p].fetch = "absent" THEN "expired" ELSE "read_value"]
    /\ UNCHANGED hist
    /\ CallerStep("set_value_key")

\* get_with_update returns self.cached_query: self.cache.get(self.cache_key)
ReturnCachedQuery(p) ==
    /\ pc[p].at = "read_value"
    /\ last' = [Other("get_with_update_returned") EXCEPT
                    !.ret = pc[p].ret,
                    !.result = [value |-> cache_get(caches, cqs_cache, value_key),
                                quiet |-> pc[p].quiet]]
    /\ pc' = [pc EXCEPT ![p] = [CallerIdle EXCEPT !.done = now]]
    /\ UNCHANGED <<db, now, caches, cfg, hist, changedAt>>

\* a step of caller p inside get_with_update
FetchStep(p) ==
    \/ CheckValueKey(p)
    \/ SerializeQuery(p)
    \/ SetValueKey(p)
    \/ UpdateRequiredStep(p)
    \/ ReturnCachedQuery(p)

\* the writer: one row comes and goes, its token never 0, so that the data's
\* fingerprint tells the two tables apart. A fetch in progress is no longer
\* one that ran while the table was quiet
WriterStep ==
    /\ db' = IF 1 \in DOMAIN db THEN <<>> ELSE (1 :> [tok |-> MaxToken, ts |-> stamp])
    /\ changedAt' = now
    /\ pc' = [p \in Callers |-> [pc[p] EXCEPT !.quiet = FALSE]]
    /\ last' = Other("write")
    /\ UNCHANGED <<now, caches, cfg, hist>>

InitConcurrentFetch ==
    /\ cfg \in {[c EXCEPT !.fingerprint_expiry = x] :
                    c \in {e \in CachedQuerySetConfigs :
                                /\ e.engine = CM_FP /\ e.query = RowIds
                                /\ e.backend = RealBackends /\ e.cache_alias = "default"},
                    x \in {-1, 1}}
    /\ db = <<>>
    /\ now = 1
    /\ caches = EmptyCaches
    /\ hist = "none"
    /\ changedAt = 0
    /\ last = Other("init")
    /\ pc = [p \in Callers |-> CallerIdle]

NextConcurrentFetch ==
    \/ Tick
    \/ WriterStep
    \/ \E p \in Callers : EnterFetch(p)
    \/ \E p \in Callers : FetchStep(p)

SpecConcurrentFetch == InitConcurrentFetch /\ [][NextConcurrentFetch]_vars

\* the fetch began more than a window after the last write and after every
\* other fetch had returned, and nothing was written while it ran
QuietFetchReturned ==
    /\ last.op = "get_with_update_returned"
    /\ last.result.quiet

\* C25: concurrent get_with_update() callers of one value key and a writer.
\* A fetch that starts more than one expiry window after the data stopped
\* changing and the fetches then in flight returned, returns the
\* serialization of the current data.
C25_ConcurrentFetchNotStaleForEver ==
    QuietFetchReturned => last.result.value = <<get_serialized_query(db)>>

-----------------------------------------------------------------------------
(* Two CachedQuerySet instances over one query, each given a cache_key of   *)
(* its own, with the engines they build by default, on one store.           *)

\* CachedQuerySet(query, cache_key=...)
InstanceKeys == {"one", "two"}

\* the store with the entries under key k and under the derived value key
\* exchanged: what an instance whose self.cache_key is k reads and writes
SwapKey(C, k) ==
    [a \in Aliases |->
        [x \in DOMAIN C[a] |->
            IF x = k THEN C[a][value_key]
            ELSE IF x = value_key THEN C[a][k]
            ELSE C[a][x]]]

\* a call's result with its store seen under the names of the instance again
SwapKeyOfResult(r, k) == [r EXCEPT !.caches = SwapKey(r.caches, k)]

\* get_with_update of the instance whose cache_key is k: the value under k,
\* the fingerprint under the key Fingerprinting.__init__ derives from the query
get_with_update_of(k, C, D, t) ==
    SwapKeyOfResult(get_with_update(SwapKey(C, k), D, t), k)

\* the instance whose cache_key is k is fetched
GetWithUpdateOf(k) ==
    LET r == get_with_update_of(k, caches, db, now)
    IN  /\ caches' = r.caches
        /\ last' = [op |-> "get_with_update_of", force |-> FALSE, ret |-> r.ret,
                    path |-> r.path, fq |-> r.fq, tq |-> r.tq, sq |-> r.sq,
                    absent |-> r.absent, result |-> [key |-> k, value |-> r.result],
                    pre |-> Pre]
        /\ UNCHANGED <<db, now, cfg, hist, changedAt, pc>>

InitInstances ==
    /\ db = <<>>
    /\ now = 1
    /\ caches = [a \in Aliases |-> [k \in Keys \cup InstanceKeys |-> NoValue]]
    /\ hist = "none"
    /\ changedAt = 0
    /\ last = Other("init")
    /\ pc = Idle
    /\ cfg \in {c \in CachedQuerySetConfigs :
                    /\ c.engine = CM_FP /\ c.query = RowIds
                    /\ c.backend = RealBackends /\ c.cache_alias = "default"}

\* one row comes and goes, its token never 0: the data's fingerprint tells
\* the two tables apart
NextInstances ==
    \/ Tick
    \/ Insert(1, MaxToken)
    \/ Delete(1)
    \/ \E k \in InstanceKeys : GetWithUpdateOf(k)

SpecInstances == InitInstances /\ [][NextInstances]_vars

\* C28: two instances over the same query with different value keys. A fetch
\* of either one that starts at least one expiry window after the last change
\* of the data returns the serialization of the current data, whichever
\* instance was fetched before.
C28_InstancesIndependent ==
    (last.op = "get_with_update_of" /\ WindowElapsedSinceChange) =>
        last.result.value = Current

-----------------------------------------------------------------------------
(* A fetch whose serialization query or value-store write fails *)

\* what can fail inside update_cache
FailureChoices == {"get_serialized_query", "cache_set"}

\* update_cache with the failure: the query raises before anything is stored,
\* the store write raises without storing; a dummy default cache returns
\* before either
update_cache_raising(C, D) ==
    IF _cache_is_dummy THEN [caches |-> C, raised |-> FALSE]
    ELSE [caches |-> C, raised |-> TRUE]

\* get_with_update in which update_cache, if it is reached, fails: the store
\* it leaves, the engine's answer, whether the exception came, and where
get_with_update_raising(C, D, t) ==
    IF ~cache_contains(C, cqs_cache, value_key)
    THEN LET u == update_cache_raising(C, D)
         IN  [caches |-> u.caches, ret |-> FALSE, raised |-> u.raised, absent |-> TRUE]
    ELSE LET r == update_required(C, D, t, FALSE)
         IN  IF r.ret
             THEN LET u == update_cache_raising(r.caches, D)
                  IN  [caches |-> u.caches, ret |-> TRUE, raised |-> u.raised,
                       absent |-> FALSE]
             ELSE [caches |-> r.caches, ret |-> FALSE, raised |-> FALSE, absent |-> FALSE]

\* get_with_update() raises from update_cache
GetWithUpdateRaising(failing) ==
    LET r == get_with_update_raising(caches, db, now)
    IN  /\ r.raised
        /\ caches' = r.caches
        /\ hist' = IF r.absent THEN "raised_absent" ELSE "raised"
        /\ last' = [Other("get_with_update_raised") EXCEPT
                        !.ret = r.ret, !.absent = r.absent,
                        !.result = [failing |-> failing], !.pre = Pre]
        /\ UNCHANGED <<db, now, cfg, changedAt, pc>>

\* get_with_update() returns
GetWithUpdateReturning ==
    LET r == get_with_update(caches, db, now)
    IN  /\ caches' = r.caches
        /\ hist' = "fetched"
        /\ last' = [op |-> "get_with_update", force |-> FALSE, ret |-> r.ret,
                    path |-> r.path, fq |-> r.fq, tq |-> r.tq, sq |-> r.sq,
                    absent |-> r.absent, result |-> r.result, pre |-> Pre]
        /\ UNCHANGED <<db, now, cfg, changedAt, pc>>

\* one row comes and goes, its token never 0
WriteRow ==
    /\ db' = IF 1 \in DOMAIN db THEN <<>> ELSE (1 :> [tok |-> MaxToken, ts |-> stamp])
    /\ changedAt' = now
    /\ hist' = "dirty"
    /\ last' = Other("write")
    /\ UNCHANGED <<now, caches, cfg, pc>>

InitFetchFailures ==
    /\ InitCommon
    /\ cfg \in {c \in CachedQuerySetConfigs :
                    /\ c.query = RowIds
                    /\ c.backend = RealBackends /\ c.cache_alias = "default"}

NextFetchFailures ==
    \/ Tick
    \/ WriteRow
    \/ GetWithUpdateReturning
    \/ \E failing \in FailureChoices : GetWithUpdateRaising(failing)

SpecFetchFailures == InitFetchFailures /\ [][NextFetchFailures]_vars

\* C29: a fetch failed in update_cache after the engine had answered True.
\* The fetch that follows it, with no write in between, recomputes the value
\* and returns the serialization of the data, not the one stored before.
C29_FailureKeepsStaleness ==
    (Fetch /\ last.pre.hist = "raised") =>
        /\ last.sq >= 1
        /\ last.result = Current

\* the same for a fetch that failed with the value key absent
FailureWithKeyAbsentKeepsStaleness ==
    (Fetch /\ last.pre.hist = "raised_absent") =>
        /\ last.sq >= 1
        /\ last.result = Current

-----------------------------------------------------------------------------
(* C31, C32: what the XOR reduction tells apart *)

\* the rows S in one of the orders a query may return them
SomeOrder(S) == CHOOSE order \in Orderings(S) : TRUE

\* Fingerprinting(query restricted to the rows S).query_fingerprint()
FingerprintOfRows(S, hashfields, long_hash) ==
    query_fingerprint_hex(ContentsIn(SomeOrder(S)), hashfields, long_hash)

\* int(s, 16) = 0
IsZero(s) == int16(s) = <<>>

\* C31: the fingerprint of a strict subset S of the rows Q of the query
\* differs from the fingerprint of Q exactly when the XOR of the tokens of the
\* rows in Q but not in S is not zero; so taking away one row, whose token is
\* not all zeros, changes the fingerprint.
C31_ContentSensitivity ==
    Computed =>
        LET Q == QueryRows(db)
            hashfields == last.result.hashfields
            long_hash == last.result.long_hash
        IN  \A S \in SUBSET Q :
                S # Q =>
                    /\ (FingerprintOfRows(S, hashfields, long_hash) # last.result.value)
                            <=> ~IsZero(FingerprintOfRows(Q \ S, hashfields, long_hash))
                    /\ (Cardinality(Q \ S) = 1
                            /\ \E i \in Q \ S :
                                    ~IsZero(fingerprint(db[i].tok, hashfields, long_hash)))
                            => FingerprintOfRows(S, hashfields, long_hash) # last.result.value

\* two rows of different whole-row tokens: the fingerprint of either row
\* alone and of no row differ from the fingerprint of both
C31_Witness ==
    /\ Computed
    /\ ~last.result.hashfields
    /\ Cardinality(QueryRows(db)) = 2
    /\ \A S \in SUBSET QueryRows(db) :
            S # QueryRows(db) =>
                FingerprintOfRows(S, FALSE, last.result.long_hash) # last.result.value

\* two writes between two calls of the engine leave the stored fingerprint
\* that of the data before them ("pair") or follow other writes ("dirty")
PairChanged ==
    /\ hist' = IF NowFp # NoValue /\ NowFp = query_fingerprint(db)
               THEN "pair" ELSE "dirty"
    /\ last' = Other("write_pair")
    /\ UNCHANGED <<now, caches, cfg, changedAt, pc>>

\* two new rows of the query with the same per-row token are saved
InsertPair(i, j, tok) ==
    /\ i # j
    /\ {i, j} \subseteq cfg.query \ DOMAIN db
    /\ db' = (i :> [tok |-> tok, ts |-> stamp]) @@ (j :> [tok |-> tok, ts |-> stamp]) @@ db
    /\ PairChanged

\* two rows of the query with the same per-row token are deleted
DeletePair(i, j) ==
    /\ i # j
    /\ {i, j} \subseteq cfg.query \cap DOMAIN db
    /\ db[i].tok = db[j].tok
    /\ db' = [k \in DOMAIN db \ {i, j} |-> db[k]]
    /\ PairChanged

InitCancel == InitCommon /\ cfg \in {c \in EngineConfigs : c.engine = FP}

NextCancel ==
    \/ Tick
    \/ \E i \in RowIds, tok \in Tokens : Insert(i, tok)
    \/ \E i, j \in RowIds, tok \in Tokens : InsertPair(i, j, tok)
    \/ \E i, j \in RowIds : DeletePair(i, j)
    \/ \E force_check \in BOOLEAN : CallUpdateRequired(force_check)
    \/ \E hashfields \in BOOLEAN, long_hash \in BOOLEAN :
            QueryFingerprint(SomeOrder(QueryRows(db)), hashfields, long_hash)

SpecCancel == InitCancel /\ [][NextCancel]_vars

\* the call follows writes of pairs of rows with equal tokens, made when the
\* stored fingerprint was that of the data
AfterPairs == EngineCall /\ last.pre.hist = "pair"

\* C32: rows with identical per-row tokens cancel in pairs. After two rows
\* with the same token were inserted or deleted, update_required() returns
\* False and the stored fingerprint is the one stored before; the fingerprint
\* string of a row set equals that of the row set without two rows of equal
\* tokens; the fingerprint of no rows is the all-zero string of the width of
\* the mode.
C32_PairsCancel ==
    /\ AfterPairs => (~last.ret /\ NowFp = PreFp)
    /\ Computed =>
        LET Q == QueryRows(db)
            hashfields == last.result.hashfields
            long_hash == last.result.long_hash
        IN  /\ \A i, j \in Q :
                    (/\ i # j
                     /\ fingerprint(db[i].tok, hashfields, long_hash)
                            = fingerprint(db[j].tok, hashfields, long_hash))
                        => FingerprintOfRows(Q \ {i, j}, hashfields, long_hash)
                                = last.result.value
            /\ Q = {} => last.result.value = Zeros(ModeWidth)

\* a forced call after two rows with the same token were inserted into an
\* empty table whose fingerprint was stored: the query is made, the answer is
\* False
C32_Witness ==
    /\ AfterPairs
    /\ last.force /\ last.fq = 1
    /\ Cardinality(QueryRows(db)) = 2
    /\ \A i, j \in QueryRows(db) : db[i].tok = db[j].tok /\ db[i].tok # 0
    /\ ~last.ret

-----------------------------------------------------------------------------
(* C33: the expiry window the caller supplied.  The clock and the windows   *)
(* count tenths of a second, as for the defaults.                           *)

\* the numbers passed as fingerprint_expiry=...: 0, 0.1 and 0.2 seconds
SuppliedExpiries == {0, 1, 2}

\* Engine(query, fingerprint_expiry=w): the engine the constructor leaves
\* behind, with the number the caller passed kept beside it
ConstructedWith(c, w) ==
    LET arg == [given |-> TRUE, none |-> FALSE, value |-> w]
    IN  [c EXCEPT !.fingerprint_expiry =
                    IF c.engine \in TimestampEngines
                    THEN TimeStamped_fingerprint_expiry(arg)
                    ELSE Fingerprinting_fingerprint_expiry(arg)]
        @@ [supplied |-> w]

InitSupplied ==
    /\ InitCommon
    /\ cfg \in {ConstructedWith(c, w) :
                    c \in {e \in EngineConfigs :
                                e.engine \in {FP, TSFP} /\ e.fingerprint_expiry = 2},
                    w \in SuppliedExpiries}

NextSupplied ==
    \/ Tick
    \/ \E i \in RowIds, tok \in TokenChoices : Insert(i, tok)
    \/ \E i \in RowIds : Delete(i)
    \/ \E force_check \in BOOLEAN : CallUpdateRequired(force_check)

SpecSupplied == InitSupplied /\ [][NextSupplied]_vars

\* C33: with a supplied window w, 0 included, a non-forced update_required()
\* takes the fast path exactly when a fingerprint and its timestamp are
\* stored and the timestamp's age is less than w.
C33_SuppliedWindowUsed ==
    (EngineCall /\ ~last.force) =>
        ((last.path = "fast") <=> (HadEntries /\ PreAge < cfg.supplied))

\* C33 for every supplied window but 0
SuppliedNonZeroWindowUsed ==
    cfg.supplied # 0 => C33_SuppliedWindowUsed

-----------------------------------------------------------------------------
(* C34: the engine a CachedQuerySet builds for itself *)

\* query_values: the columns to project on, none for the whole row
QueryValuesChoices == SUBSET FieldNames

\* inputmodel_parse(query): the rows of the query, as model instances with
\* every column
ParsedQuery == [rows |-> cfg.query, columns |-> FieldNames]

\* QuerySet.values(*fields): the named columns, every column when none is named
values(query, fields) ==
    [query EXCEPT !.columns = IF fields = {} THEN FieldNames ELSE fields]

\* CachedQuerySet.__init__(query, query_values=query_values) without fp: the
\* projected query, and the engine built over it
CachedQuerySet_init_with_values(C, fields, query_values) ==
    LET query == IF query_values # {} THEN values(ParsedQuery, query_values)
                 ELSE ParsedQuery
        fp == CachedQuerySet_init(C, fields)
    IN  [raised |-> fp.raised, caches |-> fp.caches,
         query |-> query, query_values |-> query_values,
         fp |-> [cls |-> IF fp.timestamp_column # NoColumn THEN CM_TSFP ELSE CM_FP,
                 query |-> query,
                 timestamp_column |-> fp.timestamp_column]]

\* the query get_serialized_query evaluates
serialized_query(self) ==
    IF self.query_values # {} THEN values(self.query, self.query_values)
    ELSE values(self.query, {})

\* CachedQuerySet(query, query_values=...) over the model of this table, whose
\* fields are such that some field is auto_now exactly when the table has
\* the column
ConstructCachedQuerySet(fields, query_values) ==
    LET r == CachedQuerySet_init_with_values(caches, fields, query_values)
    IN  /\ (\E i \in FieldNames : fields[i]) <=> cfg.auto_now
        /\ caches' = r.caches
        /\ last' = [Other("construct_cached_queryset") EXCEPT
                        !.result = [fields |-> fields, raised |-> r.raised,
                                    fp |-> r.fp,
                                    serialized_query |-> serialized_query(r)],
                        !.pre = Pre]
        /\ UNCHANGED <<db, now, cfg, hist, changedAt, pc>>

InitDefaultEngine ==
    /\ InitCommon
    /\ cfg \in {c \in CachedQuerySetConfigs :
                    /\ c.fingerprint_expiry = 2
                    /\ c.backend = RealBackends /\ c.cache_alias = "default"}

NextDefaultEngine ==
    \/ \E i \in RowIds, tok \in TokenChoices : Insert(i, tok)
    \/ \E fields \in ModelChoices, query_values \in QueryValuesChoices :
            ConstructCachedQuerySet(fields, query_values)
    \/ GetWithUpdate

SpecDefaultEngine == InitDefaultEngine /\ [][NextDefaultEngine]_vars

\* C34: constructing a CachedQuerySet without fp raises no ValueError; its
\* engine is the timestamp engine when the model has an auto_now column and
\* the content-hash engine otherwise, which is the engine the fetches of this
\* table use; the engine's query has the rows and the columns of the query
\* that is serialized when query_values are given, and its rows otherwise.
C34_DefaultEngine ==
    (last.op = "construct_cached_queryset") =>
        /\ last.result.raised = "none"
        /\ last.result.fp.cls = IF \E i \in FieldNames : last.result.fields[i]
                                THEN CM_TSFP ELSE CM_FP
        /\ last.result.fp.cls = cfg.engine
        /\ last.result.fp.query = last.result.serialized_query

\* a CachedQuerySet over a model without an auto_now column, projected on
\* one column: the content-hash engine over the projected query
C34_Witness ==
    /\ last.op = "construct_cached_queryset"
    /\ \A i \in FieldNames : ~last.result.fields[i]
    /\ last.result.raised = "none"
    /\ last.result.fp.cls = CM_FP
    /\ last.result.fp.query.columns = {1}
    /\ last.result.serialized_query.columns = {1}

-----------------------------------------------------------------------------
(* C35: the keys the constructors derive for one query, kind by kind *)

\* CachedQuerySet.__init__: self.cache_key = query_to_key(self.query)
CachedQuerySet_cache_key == query_to_key("")

\* Fingerprinting.__init__: cache_key and time_cache_key
Fingerprinting_cache_key == query_to_key("_hash")
Fingerprinting_time_cache_key == Fingerprinting_cache_key \o "_set_time"

\* TimeStampedFingerprint.__init__: both keys with "_ts" appended
TimeStamped_cache_key == Fingerprinting_cache_key \o "_ts"
TimeStamped_time_cache_key == Fingerprinting_time_cache_key \o "_ts"

\* ModelTimeStampedFingerprint.__init__: the table-wide keys
ModelTimeStamped_table_cache_key == TimeStamped_cache_key \o "_table"
ModelTimeStamped_table_time_cache_key == TimeStamped_time_cache_key \o "_table"

\* the seven keys, kind by kind
DefaultKeys ==
    <<CachedQuerySet_cache_key,
      Fingerprinting_cache_key, Fingerprinting_time_cache_key,
      TimeStamped_cache_key, TimeStamped_time_cache_key,
      ModelTimeStamped_table_cache_key, ModelTimeStamped_table_time_cache_key>>

\* the kinds of entry the engine of this configuration, and the CachedQuerySet
\* around it, have for the query
OwnKeys ==
    (IF cfg.cached_queryset THEN {CachedQuerySet_cache_key} ELSE {})
    \cup (IF cfg.engine \in TimestampEngines
          THEN {TimeStamped_cache_key, TimeStamped_time_cache_key}
          ELSE {Fingerprinting_cache_key, Fingerprinting_time_cache_key})
    \cup (IF cfg.engine = MTSFP
          THEN {ModelTimeStamped_table_cache_key, ModelTimeStamped_table_time_cache_key}
          ELSE {})

\* what the other engines, and a CachedQuerySet, stored for the same query
OtherKind == <<"other kind">>

InitKinds ==
    /\ db = <<>>
    /\ now = 1
    /\ hist = "none"
    /\ changedAt = 0
    /\ last = Other("init")
    /\ pc = Idle
    /\ cfg \in {c \in EngineConfigs \cup CachedQuerySetConfigs :
                    /\ c.query = RowIds
                    /\ c.backend = RealBackends /\ c.cache_alias = "default"}
    /\ caches = [a \in Aliases |->
                    [k \in Keys |-> IF k \in OwnKeys THEN NoValue ELSE OtherKind]]

NextKinds ==
    \/ Tick
    \/ \E i \in RowIds, tok \in TokenChoices : Insert(i, tok)
    \/ \E i \in RowIds : Delete(i)
    \/ \E force_check \in BOOLEAN : ~cfg.cached_queryset /\ CallUpdateRequired(force_check)
    \/ ~cfg.cached_queryset /\ DeleteCachedFingerprint
    \/ cfg.cached_queryset /\ GetWithUpdate

SpecKinds == InitKinds /\ [][NextKinds]_vars

\* C35: the seven keys derived for one query are pairwise distinct; the keys
\* an engine reads and writes are those of its own kinds; and no operation of
\* an engine or of a CachedQuerySet changes an entry of another kind.
C35_KindsApart ==
    /\ \A i, j \in DOMAIN DefaultKeys : i # j => DefaultKeys[i] # DefaultKeys[j]
    /\ {k \in Keys : \E i \in DOMAIN DefaultKeys : DefaultKeys[i] = k} = Keys
    /\ {cache_key, time_cache_key} \subseteq OwnKeys
    /\ cfg.engine = MTSFP => {table_cache_key, table_time_cache_key} \subseteq OwnKeys
    /\ cfg.cached_queryset => value_key \in OwnKeys
    /\ \A a \in Aliases, k \in Keys : k \notin OwnKeys => caches[a][k] = OtherKind

\* the tiered engine has written its four entries; the three entries of the
\* other kinds are as they were
C35_Witness ==
    /\ EngineCall
    /\ cfg.engine = MTSFP
    /\ \A k \in OwnKeys : caches[fp_cache][k] # NoValue
    /\ caches[fp_cache][CachedQuerySet_cache_key] = OtherKind
    /\ caches[fp_cache][Fingerprinting_cache_key] = OtherKind
    /\ caches[fp_cache][Fingerprinting_time_cache_key] = OtherKind

====
